---- MODULE Spec2Model ----
(***************************************************************************)
(* Replay of a chat-session mutation log, reboot (compaction) boundary     *)
(* detection, patch windows and the timestamp classifier, as implemented   *)
(* by agent_manifest.py, correlate_edits_to_patches.py and                 *)
(* count_reboots_ground_truth.py.  The three scripts read the same log;    *)
(* the model runs their replay loops side by side on the same lines.       *)
(***************************************************************************)
EXTENDS Integers, Sequences, FiniteSets, TLC

VARIABLES
    pc,          \* per script: "replay", then "done" (or "error")
    log,         \* the log lines consumed so far, after the snapshot line
    am,          \* agent_manifest.load_requests: [req_data, next_idx]
    ce,          \* correlate_edits_to_patches.load_requests: [request_data, next_idx]
    gt,          \* count_reboots_ground_truth.load_and_resolve: request_data
    prev,        \* the stores before each consumed line (history of am, ce, gt)
    requests,    \* agent_manifest: the list[Request] load_requests returns
    windows,     \* agent_manifest: compute_patch_windows(requests)
    true_reboots,\* count_reboots_ground_truth: the emitted reboots
    compactions, \* correlate_edits_to_patches: the deduplicated compactions
    ce_windows,  \* correlate_edits_to_patches: build_reboot_windows(request_data)
    op_ts,       \* the timestamp last handed to ts_to_patch
    op_patch,    \* what ts_to_patch returned for it
    line0,       \* lines[0] of the log, decoded (or what stands in its place)
    ops,         \* chatEditingSessions state.json: timeline.operations
    by_patch,    \* correlate_edits_to_patches.main: the operations per patch
    analyses,    \* agent_manifest.main: analyze_patch of every window
    ta,          \* terminal_archaeology.load_requests: the requests dict
    calls        \* terminal_archaeology: mine_terminal_calls of the request list

vars == <<pc, log, am, ce, gt, prev, requests, windows, true_reboots,
          compactions, ce_windows, op_ts, op_patch, line0, ops, by_patch, analyses,
          ta, calls>>

(***************************************************************************)
(* JSON values, tagged with their Python type.                             *)
(***************************************************************************)
Null == [t |-> "null", v |-> 0]
I(n) == [t |-> "int", v |-> n]
S(s) == [t |-> "str", v |-> s]
L(q) == [t |-> "list", v |-> q]
D(f) == [t |-> "dict", v |-> f]
EmptyDict == D(<<>>)
EmptyList == L(<<>>)

IsDict(x) == x.t = "dict"
IsList(x) == x.t = "list"
IsStr(x) == x.t = "str"
IsInt(x) == x.t = "int"

\* Python truthiness: bool(x)
Truthy(x) ==
    CASE x.t = "null" -> FALSE
      [] x.t = "int" -> x.v # 0
      [] x.t = "str" -> x.v # ""
      [] x.t = "list" -> Len(x.v) > 0
      [] x.t = "dict" -> DOMAIN x.v # {}

\* a dict key: JSON object keys are strings; a path segment that is an
\* integer becomes an (int) key of the Python dict, kept apart from strings
KeyOf(seg) == IF seg.t = "int" THEN "#" \o ToString(seg.v) ELSE seg.v

\* d.get(k, dflt)
Get(d, k, dflt) == IF k \in DOMAIN d.v THEN d.v[k] ELSE dflt

\* mutant: the value is stored only when the key is new (setdefault)
PutIfAbsent(d, k, x) ==
    D([kk \in (DOMAIN d.v) \cup {k} |-> IF kk \in DOMAIN d.v THEN d.v[kk] ELSE x])

\* d[k] = x
Put(d, k, x) == D([kk \in (DOMAIN d.v) \cup {k} |-> IF kk = k THEN x ELSE d.v[kk]])

\* the sorted list of a finite set of integers: sorted(keys)
RECURSIVE Sorted(_)
Sorted(ks) ==
    IF ks = {} THEN <<>>
    ELSE LET m == CHOOSE x \in ks : \A y \in ks : x <= y
         IN <<m>> \o Sorted(ks \ {m})

\* f[i] = x on a Python dict keyed by integers
SetAt(f, i, x) == [j \in (DOMAIN f) \cup {i} |-> IF j = i THEN x ELSE f[j]]

(***************************************************************************)
(* Log lines.  A line is blank, fails json.loads, or decodes to a value.   *)
(***************************************************************************)
BlankLine == [t |-> "blank", v |-> 0]
BadLine == [t |-> "invalid", v |-> 0]

REQUESTS == S("requests")

\* {i: deepcopy(r) for i, r in enumerate(raw_reqs) if r is not None}
SnapshotData(raw_reqs) ==
    [i \in {j \in 0..(Len(raw_reqs) - 1) : raw_reqs[j + 1] # Null} |-> raw_reqs[i + 1]]

\* snap.get("v", {}).get("requests", [])
SnapshotReqs(snap) == Get(Get(snap, "v", EmptyDict), "requests", EmptyList).v

\* the log has no line at all: lines == []
NoLine == [t |-> "absent", v |-> 0]

\* reading the first line raises: lines[0] on an empty log (IndexError),
\* json.loads on a blank or invalid line (JSONDecodeError), .get on a decoded
\* value or on a "v" that is not a dict (AttributeError), enumerate or len
\* over a "requests" that is null or a number (TypeError)
LoadRaises(first) ==
    \/ first = NoLine
    \/ first.t \in {"blank", "invalid"}
    \/ ~IsDict(first)
    \/ ~IsDict(Get(first, "v", EmptyDict))
    \/ Get(Get(first, "v", EmptyDict), "requests", EmptyList).t \in {"null", "int"}

\* the top-level array extension: each dict of the list takes next_idx
RECURSIVE ExtendRequests(_, _, _)
ExtendRequests(data, next_idx, items) ==
    IF items = <<>> THEN [data |-> data, next_idx |-> next_idx]
    ELSE IF IsDict(Head(items))
         THEN ExtendRequests(SetAt(data, next_idx, Head(items)), next_idx + 1, Tail(items))
         ELSE ExtendRequests(data, next_idx, Tail(items))

\* mutant: a value on the path that is not a dict is replaced by a new dict
RECURSIVE SetDeepOverwrites(_, _, _)
SetDeepOverwrites(target, sub_keys, val) ==
    LET t == IF IsDict(target) THEN target ELSE EmptyDict
    IN IF Len(sub_keys) = 1 THEN Put(t, KeyOf(sub_keys[1]), val)
       ELSE Put(t, KeyOf(Head(sub_keys)),
                SetDeepOverwrites(Get(t, KeyOf(Head(sub_keys)), EmptyDict),
                                  Tail(sub_keys), val))

\* the deep patch: descend sub_keys[:-1] through dicts (setdefault), then
\* set sub_keys[-1]; a target that is not a dict is left as it is
RECURSIVE SetDeep(_, _, _)
SetDeep(target, sub_keys, val) ==
    IF ~IsDict(target) THEN target
    ELSE IF Len(sub_keys) = 1 THEN Put(target, KeyOf(sub_keys[1]), val)
    ELSE LET sk == KeyOf(Head(sub_keys))
             child == Get(target, sk, EmptyDict)
         IN Put(target, sk, SetDeep(child, Tail(sub_keys), val))

\* mutant: the append stores the new list in place of the response
AppendResponseReplaces(req, val) == Put(req, "response", val)

\* existing = req.get("response", []); existing.extend(val); req["response"] = existing
AppendResponse(req, val) ==
    Put(req, "response", L(Get(req, "response", EmptyList).v \o val.v))

\* existing.extend raises when the stored response is not a list
AppendRaises(req, val) == IsList(val) /\ ~IsList(Get(req, "response", EmptyList))

\* is this decoded line a patch on one request: keys = ["requests", int, field, ...]
AddressesRequest(keys) ==
    /\ IsList(keys)
    /\ Len(keys.v) >= 3
    /\ keys.v[1] = REQUESTS
    /\ IsInt(keys.v[2])

\* req_data[req_idx], after "if req_idx not in req_data: req_data[req_idx] = {}"
WithStub(data, req_idx) ==
    IF req_idx \in DOMAIN data THEN data ELSE SetAt(data, req_idx, EmptyDict)

(***************************************************************************)
(* agent_manifest.load_requests: the body of the patch loop.               *)
(***************************************************************************)
LoadSnapshotAM(snap) ==
    IF LoadRaises(snap) THEN [req_data |-> <<>>, next_idx |-> 0, err |-> TRUE]
    ELSE [req_data |-> SnapshotData(SnapshotReqs(snap)),
          next_idx |-> Len(SnapshotReqs(snap)),
          err |-> FALSE]

ApplyAM(st, line) ==
    IF line.t \in {"blank", "invalid"} THEN st
    ELSE IF ~IsDict(line) THEN [st EXCEPT !.err = TRUE]
    ELSE
    LET kind == Get(line, "kind", Null)
        keys == Get(line, "k", EmptyList)
        val == Get(line, "v", Null)
    IN  IF kind = I(2) /\ keys = L(<<REQUESTS>>) /\ IsList(val)
        THEN LET r == ExtendRequests(st.req_data, st.next_idx, val.v)
             IN [st EXCEPT !.req_data = r.data, !.next_idx = r.next_idx]
        ELSE IF kind \notin {I(1), I(2)} THEN st
        ELSE IF ~AddressesRequest(keys) THEN st
        ELSE
        LET req_idx == keys.v[2].v
            field == KeyOf(keys.v[3])
            data == WithStub(st.req_data, req_idx)
            req == data[req_idx]
        IN  IF kind = I(1)
            THEN IF Len(keys.v) = 3
                 THEN [st EXCEPT !.req_data = SetAt(data, req_idx, Put(req, field, val))]
                 ELSE LET target == Get(req, field, EmptyDict)
                          sub_keys == SubSeq(keys.v, 4, Len(keys.v))
                      IN [st EXCEPT !.req_data =
                             SetAt(data, req_idx,
                                   Put(req, field, SetDeep(target, sub_keys, val)))]
            ELSE IF field = "response"
                 THEN IF AppendRaises(req, val)
                      THEN [st EXCEPT !.req_data = data, !.err = TRUE]
                      ELSE IF IsList(val)
                           THEN [st EXCEPT !.req_data =
                                    SetAt(data, req_idx, AppendResponse(req, val))]
                           ELSE [st EXCEPT !.req_data = data]
                 ELSE [st EXCEPT !.req_data = data]

(***************************************************************************)
(* correlate_edits_to_patches.load_requests: the body of the patch loop.   *)
(***************************************************************************)
LoadSnapshotCE(snap) ==
    IF LoadRaises(snap) THEN [request_data |-> <<>>, next_idx |-> 0, err |-> TRUE]
    ELSE [request_data |-> SnapshotData(SnapshotReqs(snap)),
          next_idx |-> Len(SnapshotReqs(snap)),
          err |-> FALSE]

ApplyCE(st, line) ==
    IF line.t \in {"blank", "invalid"} THEN st
    ELSE IF ~IsDict(line) THEN [st EXCEPT !.err = TRUE]
    ELSE
    LET kind == Get(line, "kind", Null)
        keys == Get(line, "k", EmptyList)
        val == Get(line, "v", Null)
    IN  IF kind = I(2) /\ keys = L(<<REQUESTS>>) /\ IsList(val)
        THEN LET r == ExtendRequests(st.request_data, st.next_idx, val.v)
             IN [st EXCEPT !.request_data = r.data, !.next_idx = r.next_idx]
        ELSE IF kind \notin {I(1), I(2)} THEN st
        ELSE IF ~AddressesRequest(keys) THEN st
        ELSE
        LET req_idx == keys.v[2].v
            field == KeyOf(keys.v[3])
            data == WithStub(st.request_data, req_idx)
            req == data[req_idx]
        IN  IF kind = I(1)
            THEN [st EXCEPT !.request_data = SetAt(data, req_idx, Put(req, field, val))]
            ELSE IF field = "response"
                 THEN IF AppendRaises(req, val)
                      THEN [st EXCEPT !.request_data = data, !.err = TRUE]
                      ELSE IF IsList(val)
                           THEN [st EXCEPT !.request_data =
                                    SetAt(data, req_idx, AppendResponse(req, val))]
                           ELSE [st EXCEPT !.request_data = data]
                 ELSE [st EXCEPT !.request_data = data]

(***************************************************************************)
(* count_reboots_ground_truth.load_and_resolve: the body of the loop.      *)
(***************************************************************************)
LoadSnapshotGT(snap) ==
    IF LoadRaises(snap) THEN [request_data |-> <<>>, err |-> TRUE]
    ELSE [request_data |-> SnapshotData(SnapshotReqs(snap)), err |-> FALSE]

ApplyGT(st, line) ==
    IF line.t \in {"blank", "invalid"} THEN st
    ELSE IF ~IsDict(line) THEN [st EXCEPT !.err = TRUE]
    ELSE
    LET kind == Get(line, "kind", Null)
        keys == Get(line, "k", EmptyList)
        val == Get(line, "v", Null)
    IN  IF kind \notin {I(1), I(2)} THEN st
        ELSE IF ~AddressesRequest(keys) THEN st
        ELSE
        LET req_idx == keys.v[2].v
            field == KeyOf(keys.v[3])
            data == WithStub(st.request_data, req_idx)
            req == data[req_idx]
        IN  IF kind = I(1)
            THEN [st EXCEPT !.request_data = SetAt(data, req_idx, Put(req, field, val))]
            ELSE IF field = "response"
                 THEN IF AppendRaises(req, val)
                      THEN [st EXCEPT !.request_data = data, !.err = TRUE]
                      ELSE IF IsList(val)
                           THEN [st EXCEPT !.request_data =
                                    SetAt(data, req_idx, AppendResponse(req, val))]
                           ELSE [st EXCEPT !.request_data = data]
                 ELSE [st EXCEPT !.request_data = data]

(***************************************************************************)
(* Completion markers and the summary text (the same in the three scripts).*)
(***************************************************************************)
\* mutant: only the newer marker string is recognized
OnlyNewMarker == {"Compacted conversation"}

COMPLETED_MARKERS == {"Summarized conversation history", "Compacted conversation"}

\* the kind strings of response parts for which "progressTask" in kind_str
ProgressKinds == {"progressTask", "progressTaskSerialized"}

\* str(part.get("kind", ""))
KindStr(part) ==
    LET k == Get(part, "kind", S("")) IN IF IsStr(k) THEN k.v ELSE "None"

\* the marker text a response part carries: S(text), or Null for none
PartMarker(part) ==
    IF ~IsDict(part) THEN Null
    ELSE IF KindStr(part) \notin ProgressKinds THEN Null
    ELSE LET c0 == Get(part, "content", EmptyDict)
             content == IF IsDict(c0) THEN Get(c0, "value", S("")) ELSE c0
         IN IF IsStr(content) /\ content.v \in COMPLETED_MARKERS THEN content ELSE Null

\* the first marker among the parts, scanning in order (return / break)
RECURSIVE FirstMarker(_)
FirstMarker(parts) ==
    IF parts = <<>> THEN Null
    ELSE IF PartMarker(Head(parts)) # Null THEN PartMarker(Head(parts))
    ELSE FirstMarker(Tail(parts))

\* the parts a "for part in ..." over the stored response visits as dicts
PartsOf(resp) == IF IsList(resp) THEN resp.v ELSE <<>>

\* get_compaction_marker(req): (req or {}).get("response", [])
get_compaction_marker(req) == FirstMarker(PartsOf(Get(req, "response", EmptyList)))

\* get_summary_text(req): result.metadata.summary.text, or None
get_summary_text(req) ==
    LET result == Get(req, "result", EmptyDict) IN
    IF ~IsDict(result) THEN Null
    ELSE LET meta == Get(result, "metadata", EmptyDict) IN
    IF ~IsDict(meta) THEN Null
    ELSE LET summ == Get(meta, "summary", EmptyDict) IN
    IF ~IsDict(summ) THEN Null
    ELSE Get(summ, "text", Null)

\* hashlib.md5(text.encode()).hexdigest() of the summary texts of the model
MD5Hex(text) ==
    CASE text = "X" -> "02129bb861061d1a052c592e2dc6b383"
      [] text = "Y" -> "57cec4137b614c87cb4e24a3d003a3e0"
      [] text = "abc" -> "900150983cd24fb0d6963f7d28e17f72"
      [] text = "" -> "d41d8cd98f00b204e9800998ecf8427e"

(***************************************************************************)
(* agent_manifest: tool calls and the file path of an invocation message.  *)
(***************************************************************************)
\* mutant: copilot_createFile is listed with the read tools as well
ReadToolIdsWithCreate ==
    {"copilot_readFile", "copilot_createFile", "copilot_findFiles", "copilot_findTextInFiles",
     "copilot_listDirectory", "copilot_getErrors", "copilot_getChangedFiles",
     "copilot_searchCodebase"}
WRITE_TOOL_IDS ==
    {"copilot_createFile", "copilot_createDirectory", "copilot_replaceString",
     "copilot_multiReplaceString", "copilot_editFiles"}

READ_TOOL_IDS ==
    {"copilot_readFile", "copilot_findFiles", "copilot_findTextInFiles",
     "copilot_listDirectory", "copilot_getErrors", "copilot_getChangedFiles",
     "copilot_searchCodebase"}

\* os.sep on the platform the scripts address (%APPDATA%, Windows paths)
OsSep == "\\"

CharAt(s, i) == SubSeq(s, i, i)

\* does pat occur in s at position i
Occurs(s, pat, i) == i + Len(pat) - 1 <= Len(s) /\ SubSeq(s, i, i + Len(pat) - 1) = pat

\* the last position of the longest run from i of characters outside stop
\* (i - 1 when the run is empty): a greedy negated character class
RECURSIVE RunEnd(_, _, _)
RunEnd(s, i, stop) ==
    IF i > Len(s) \/ CharAt(s, i) \in stop THEN i - 1 ELSE RunEnd(s, i + 1, stop)

\* r"\]\(file:///([^)]+)\)" matches at i: the group runs to the next ")"
MarkdownLinkAt(s, i) ==
    /\ Occurs(s, "](file:///", i)
    /\ RunEnd(s, i + 10, {")"}) >= i + 10
    /\ RunEnd(s, i + 10, {")"}) < Len(s)

\* the characters that end the group of r"file:///([^\s'\"]+)"
BareStops == {" ", "\t", "\n", "\r", "\f", "'", "\""}

\* r"file:///([^\s'\"]+)" matches at i
BareUrlAt(s, i) ==
    /\ Occurs(s, "file:///", i)
    /\ RunEnd(s, i + 8, BareStops) >= i + 8

\* the least element of a non-empty set of positions: re.search is leftmost
MinOf(ks) == CHOOSE x \in ks : \A y \in ks : x <= y

\* urllib.parse.unquote, for the escapes that occur in the messages
RECURSIVE unquote(_)
unquote(s) ==
    IF s = "" THEN ""
    ELSE IF Len(s) >= 3 /\ SubSeq(s, 1, 3) \in {"%3A", "%3a"}
         THEN ":" \o unquote(SubSeq(s, 4, Len(s)))
    ELSE IF Len(s) >= 3 /\ SubSeq(s, 1, 3) = "%20"
         THEN " " \o unquote(SubSeq(s, 4, Len(s)))
    ELSE CharAt(s, 1) \o unquote(SubSeq(s, 2, Len(s)))

\* .replace("/", os.sep)
RECURSIVE ReplaceSlash(_)
ReplaceSlash(s) ==
    IF s = "" THEN ""
    ELSE (IF CharAt(s, 1) = "/" THEN OsSep ELSE CharAt(s, 1))
         \o ReplaceSlash(SubSeq(s, 2, Len(s)))

\* the text searched: the "value" of a dict message, or the message string
MessageText(part) ==
    LET msg == Get(part, "invocationMessage", S(""))
    IN IF IsDict(msg) THEN Get(msg, "value", S("")).v
       ELSE IF IsStr(msg) THEN msg.v ELSE ""

\* extract_file_path(part): the path as S(path), or Null for None
extract_file_path(part) ==
    LET msg_text == MessageText(part)
        md == {i \in 1..Len(msg_text) : MarkdownLinkAt(msg_text, i)}
        bare == {i \in 1..Len(msg_text) : BareUrlAt(msg_text, i)}
    IN IF md # {}
       THEN LET i == MinOf(md)
            IN S(ReplaceSlash(unquote(
                   SubSeq(msg_text, i + 10, RunEnd(msg_text, i + 10, {")"})))))
       ELSE IF bare # {}
       THEN LET i == MinOf(bare)
            IN S(ReplaceSlash(unquote(
                   SubSeq(msg_text, i + 8, RunEnd(msg_text, i + 8, BareStops)))))
       ELSE Null

\* ToolCall.__init__
ToolCall(part) ==
    LET tool_id == Get(part, "toolId", S(""))
        rd == Get(part, "resultDetails", Null)
    IN [tool_id |-> tool_id,
        file_path |-> extract_file_path(part),
        command |-> IF tool_id = S("run_in_terminal") /\ IsDict(rd)
                    THEN Get(rd, "input", S("")) ELSE Null]

\* is the response part a tool invocation: part.get("kind") == "toolInvocationSerialized"
IsToolPart(part) == IsDict(part) /\ Get(part, "kind", Null) = S("toolInvocationSerialized")

\* Request.__init__: a ToolCall for each tool invocation of the response
RECURSIVE ToolCallsOf(_)
ToolCallsOf(parts) ==
    IF parts = <<>> THEN <<>>
    ELSE (IF IsToolPart(Head(parts)) THEN <<ToolCall(Head(parts))>> ELSE <<>>)
         \o ToolCallsOf(Tail(parts))

ToolCalls(raw) ==
    LET r0 == Get(raw, "response", Null)
        resp == IF Truthy(r0) THEN r0 ELSE EmptyList
    IN ToolCallsOf(PartsOf(resp))

(***************************************************************************)
(* agent_manifest: Request objects and compute_patch_windows.              *)
(***************************************************************************)
\* Request.__init__: "raw.get('response') or []" scanned for a marker
IsReboot(raw) ==
    LET r0 == Get(raw, "response", Null)
        resp == IF Truthy(r0) THEN r0 ELSE EmptyList
    IN FirstMarker(PartsOf(resp)) # Null

\* Request.__init__: md5 of result.metadata.summary.text, first 8 hex digits
SummaryHash(raw) ==
    IF ~IsReboot(raw) THEN Null
    ELSE LET result == Get(raw, "result", EmptyDict) IN
    IF ~IsDict(result) THEN Null
    ELSE LET meta == Get(result, "metadata", EmptyDict) IN
    IF ~IsDict(meta) THEN Null
    ELSE LET summ == Get(meta, "summary", EmptyDict) IN
    IF ~IsDict(summ) THEN Null
    ELSE LET text == Get(summ, "text", S("")) IN
    IF Truthy(text) THEN S(SubSeq(MD5Hex(text.v), 1, 8)) ELSE Null

Request(idx, raw) ==
    [idx |-> idx,
     request_id |-> Get(raw, "requestId", S("")),
     timestamp |-> Get(raw, "timestamp", Null),
     model_id |-> Get(raw, "modelId", S("")),
     tool_calls |-> ToolCalls(raw),
     is_reboot |-> IsReboot(raw),
     summary_hash |-> SummaryHash(raw)]

\* load_requests, after the loop: a Request per non-empty raw, by sorted index
RECURSIVE BuildRequests(_, _)
BuildRequests(req_data, idxs) ==
    IF idxs = <<>> THEN <<>>
    ELSE LET raw == req_data[Head(idxs)]
             rest == BuildRequests(req_data, Tail(idxs))
         IN IF Truthy(raw) THEN <<Request(Head(idxs), raw)>> \o rest ELSE rest

RequestsOf(req_data) == BuildRequests(req_data, Sorted(DOMAIN req_data))

\* mutant: every summarised reboot starts a patch, no comparison with prev_hash
IsNewRebootNoDedup(req, prev_hash) == req.is_reboot /\ Truthy(req.summary_hash)

\* does request req start a new patch, given the hash of the last one that did
IsNewReboot(req, prev_hash) ==
    req.is_reboot /\ Truthy(req.summary_hash) /\ req.summary_hash # prev_hash

\* compute_patch_windows: the positions (0-based) of the deduplicated reboots
RECURSIVE RebootIndices(_, _, _)
RebootIndices(reqs, i, prev_hash) ==
    IF i >= Len(reqs) THEN <<>>
    ELSE IF IsNewReboot(reqs[i + 1], prev_hash)
         THEN <<i>> \o RebootIndices(reqs, i + 1, reqs[i + 1].summary_hash)
         ELSE RebootIndices(reqs, i + 1, prev_hash)

reboot_indices(reqs) == RebootIndices(reqs, 0, Null)

\* mutant: a window starts two positions after the boundary request
WindowStartsSkipOne(ris) == <<0>> \o [k \in 1..Len(ris) |-> ris[k] + 2]

\* mutant: a window starts on the boundary request itself
WindowStartsOnBoundary(ris) == <<0>> \o ris

\* starts = [0] + [ri + 1 for ri in reboot_indices]
WindowStarts(ris) == <<0>> \o [k \in 1..Len(ris) |-> ris[k] + 1]

\* ends = reboot_indices + [len(requests) - 1]
WindowEnds(ris, n) == ris \o <<n - 1>>

\* requests[end] with end = -1 on an empty list raises IndexError
ComputeRaises(reqs) == Len(reqs) = 0

compute_patch_windows(reqs) ==
    LET ris == reboot_indices(reqs)
        starts == WindowStarts(ris)
        ends == WindowEnds(ris, Len(reqs))
    IN [k \in 1..Len(starts) |->
          [patch |-> k - 1,
           req_start |-> starts[k],
           req_end |-> ends[k],
           start_ts |-> IF starts[k] < Len(reqs) THEN reqs[starts[k] + 1].timestamp ELSE Null,
           end_ts |-> IF ends[k] < Len(reqs) THEN reqs[ends[k] + 1].timestamp ELSE Null,
           requests |-> SubSeq(reqs, starts[k] + 1, ends[k] + 1)]]

(***************************************************************************)
(* agent_manifest: load_editing_ops and analyze_patch.                     *)
(***************************************************************************)
\* op.get("requestId", "")
OpRid(op) == Get(op, "requestId", S(""))

\* uri.get("fsPath", "") of a dict uri, str(uri) otherwise
OpFsPath(op) ==
    LET uri == Get(op, "uri", EmptyDict)
    IN IF IsDict(uri) THEN Get(uri, "fsPath", S("")) ELSE uri

\* "if rid and fspath": the operations load_editing_ops keeps
OpKept(op) == Truthy(OpRid(op)) /\ Truthy(OpFsPath(op))

\* the entry stored for a kept operation
OpEntry(op) ==
    [type |-> Get(op, "type", S("")), fsPath |-> OpFsPath(op), epoch |-> Get(op, "epoch", I(0))]

RECURSIVE OpsFor(_, _)
OpsFor(oplist, rid) ==
    IF oplist = <<>> THEN <<>>
    ELSE (IF OpKept(Head(oplist)) /\ OpRid(Head(oplist)) = rid
          THEN <<OpEntry(Head(oplist))>> ELSE <<>>)
         \o OpsFor(Tail(oplist), rid)

\* load_editing_ops: requestId -> the kept operations of that request
load_editing_ops(oplist) ==
    [rid \in {OpRid(oplist[k]) : k \in {j \in 1..Len(oplist) : OpKept(oplist[j])}}
        |-> OpsFor(oplist, rid)]

\* all_tool_calls: the tool calls of the requests of the window, in order
RECURSIVE AllToolCalls(_)
AllToolCalls(reqs) ==
    IF reqs = <<>> THEN <<>> ELSE Head(reqs).tool_calls \o AllToolCalls(Tail(reqs))

\* mutant: only the calls with a recovered path or command are counted
RECURSIVE ToolCountsOfTracked(_)
ToolCountsOfTracked(tcs) ==
    IF tcs = <<>> THEN <<>>
    ELSE LET rest == ToolCountsOfTracked(Tail(tcs))
             id == Head(tcs).tool_id
         IN IF Truthy(Head(tcs).file_path) \/ Truthy(Head(tcs).command)
            THEN SetAt(rest, id, (IF id \in DOMAIN rest THEN rest[id] ELSE 0) + 1)
            ELSE rest

\* tool_id_counts = Counter(tc.tool_id for _, tc in all_tool_calls)
RECURSIVE ToolCounts(_)
ToolCounts(tcs) ==
    IF tcs = <<>> THEN <<>>
    ELSE LET rest == ToolCounts(Tail(tcs))
             id == Head(tcs).tool_id
         IN SetAt(rest, id, (IF id \in DOMAIN rest THEN rest[id] ELSE 0) + 1)

\* the branch of the if / elif chain a tool call takes
Branch(tc) ==
    IF tc.tool_id = S("run_in_terminal") THEN "cmds"
    ELSE IF IsStr(tc.tool_id) /\ tc.tool_id.v \in READ_TOOL_IDS THEN "reads"
    ELSE IF IsStr(tc.tool_id) /\ tc.tool_id.v \in WRITE_TOOL_IDS THEN "writes"
    ELSE "none"

\* the loop over all_tool_calls that fills cmds
RECURSIVE Cmds(_)
Cmds(tcs) ==
    IF tcs = <<>> THEN <<>>
    ELSE (IF Branch(Head(tcs)) = "cmds" /\ Truthy(Head(tcs).command)
          THEN <<Head(tcs).command>> ELSE <<>>)
         \o Cmds(Tail(tcs))

\* the same loop for reads and writes: (file_path, tool_id) of the calls of
\* that branch with a path
RECURSIVE Trail(_, _)
Trail(tcs, branch) ==
    IF tcs = <<>> THEN <<>>
    ELSE LET tc == Head(tcs)
         IN (IF Branch(tc) = branch /\ Truthy(tc.file_path)
             THEN <<<<tc.file_path, tc.tool_id>>>> ELSE <<>>)
            \o Trail(Tail(tcs), branch)

\* the operations of the requests of the window, in request order
RECURSIVE WindowOps(_, _)
WindowOps(reqs, editing_ops) ==
    IF reqs = <<>> THEN <<>>
    ELSE (IF Head(reqs).request_id \in DOMAIN editing_ops
          THEN editing_ops[Head(reqs).request_id] ELSE <<>>)
         \o WindowOps(Tail(reqs), editing_ops)

\* the unique paths of the operations of one type, by first appearance
RECURSIVE UniquePaths(_, _, _)
UniquePaths(entries, type, seen) ==
    IF entries = <<>> THEN <<>>
    ELSE LET e == Head(entries)
         IN IF e.type = S(type) /\ e.fsPath \notin seen
            THEN <<e.fsPath>> \o UniquePaths(Tail(entries), type, seen \cup {e.fsPath})
            ELSE UniquePaths(Tail(entries), type, seen)

\* a Python float, kept as the exact quotient num / den
F(num, den) == [t |-> "float", v |-> [num |-> num, den |-> den]]

\* dur: None unless start_ts and end_ts are both truthy, then
\* (int(end_ts) - int(start_ts)) / 1000; timestamps are integers or None
Duration(start_ts, end_ts) ==
    IF Truthy(start_ts) /\ Truthy(end_ts) /\ IsInt(start_ts) /\ IsInt(end_ts)
    THEN F(end_ts.v - start_ts.v, 1000) ELSE Null

analyze_patch(window, editing_ops) ==
    LET reqs == window.requests
        tcs == AllToolCalls(reqs)
        wops == WindowOps(reqs, editing_ops)
    IN [patch |-> window.patch,
        start_ts |-> window.start_ts,
        end_ts |-> window.end_ts,
        duration_s |-> Duration(window.start_ts, window.end_ts),
        req_count |-> Len(reqs),
        tool_counts |-> ToolCounts(tcs),
        reads |-> Trail(tcs, "reads"),
        writes |-> Trail(tcs, "writes"),
        cmds |-> Cmds(tcs),
        edit_creates |-> UniquePaths(wops, "create", {}),
        edit_edits |-> UniquePaths(wops, "textEdit", {})]

(***************************************************************************)
(* count_reboots_ground_truth.count_reboots.                               *)
(***************************************************************************)
\* (idx, marker, summary) for each request with a completed marker
RECURSIVE CompactionEvents(_, _)
CompactionEvents(request_data, idxs) ==
    IF idxs = <<>> THEN <<>>
    ELSE LET req == request_data[Head(idxs)]
             marker == get_compaction_marker(req)
             rest == CompactionEvents(request_data, Tail(idxs))
         IN IF Truthy(marker)
            THEN <<[req_idx |-> Head(idxs), marker |-> marker,
                    summary |-> get_summary_text(req)]>> \o rest
            ELSE rest

\* h: md5 of the summary, first 10 hex digits, or "NO_SUMMARY"
HashGT(summary) ==
    IF summary # Null THEN S(SubSeq(MD5Hex(summary.v), 1, 10)) ELSE S("NO_SUMMARY")

\* mutant: every compaction event counts as new
IsNewAlways(h, prev_hash) == TRUE

\* is_new = (h != prev_hash)
IsNew(h, prev_hash) == h # prev_hash

\* the walk over compaction_events: an event is kept when it is new
RECURSIVE TrueReboots(_, _)
TrueReboots(events, prev_hash) ==
    IF events = <<>> THEN <<>>
    ELSE LET e == Head(events)
             h == HashGT(e.summary)
             rest == TrueReboots(Tail(events), h)
         IN IF IsNew(h, prev_hash)
            THEN <<[req_idx |-> e.req_idx, marker |-> e.marker, summary_hash |-> h]>> \o rest
            ELSE rest

count_reboots(request_data) ==
    TrueReboots(CompactionEvents(request_data, Sorted(DOMAIN request_data)), Null)

(***************************************************************************)
(* correlate_edits_to_patches: build_reboot_windows and ts_to_patch.       *)
(***************************************************************************)
\* get_timestamp_ms(req): the first of timestamp, requestStartTime not None
get_timestamp_ms(req) ==
    IF Get(req, "timestamp", Null) # Null THEN Get(req, "timestamp", Null)
    ELSE IF Get(req, "requestStartTime", Null) # Null THEN Get(req, "requestStartTime", Null)
    ELSE Null

\* h: md5 of a truthy summary, first 10 hex digits, or "NO_SUMMARY"
HashCE(summary) ==
    IF Truthy(summary) THEN S(SubSeq(MD5Hex(summary.v), 1, 10)) ELSE S("NO_SUMMARY")

\* the loop of build_reboot_windows; n is len(compactions) so far
RECURSIVE Compactions(_, _, _, _)
Compactions(request_data, idxs, prev_hash, n) ==
    IF idxs = <<>> THEN <<>>
    ELSE LET req == request_data[Head(idxs)]
             marker == get_compaction_marker(req)
             h == HashCE(get_summary_text(req))
         IN IF ~Truthy(marker)
            THEN Compactions(request_data, Tail(idxs), prev_hash, n)
            ELSE IF h # prev_hash
            THEN <<[patch |-> n + 1, ts_ms |-> get_timestamp_ms(req),
                    req_idx |-> Head(idxs), hash |-> h]>>
                 \o Compactions(request_data, Tail(idxs), h, n + 1)
            ELSE Compactions(request_data, Tail(idxs), prev_hash, n)

compactions_of(request_data) ==
    Compactions(request_data, Sorted(DOMAIN request_data), Null, 0)

\* the windows built from the compactions cs
WindowsFrom(cs) ==
    LET first_start == IF Len(cs) > 0 THEN cs[1].ts_ms ELSE Null
    IN <<[patch |-> 0, start_ms |-> Null, end_ms |-> first_start, hash |-> Null]>>
       \o [i \in 1..Len(cs) |->
             [patch |-> cs[i].patch,
              start_ms |-> cs[i].ts_ms,
              end_ms |-> IF i + 1 <= Len(cs) THEN cs[i + 1].ts_ms ELSE Null,
              hash |-> cs[i].hash]]

build_reboot_windows(request_data) == WindowsFrom(compactions_of(request_data))

\* mutant: a window is open on the left, ts_ms > start
WindowTakesOpenLeft(w, ts_ms) ==
    IF w.start_ms = Null
    THEN w.end_ms = Null \/ ts_ms < w.end_ms.v
    ELSE ts_ms > w.start_ms.v /\ (w.end_ms = Null \/ ts_ms < w.end_ms.v)

\* is window w the one ts_to_patch returns for ts_ms, taken alone
WindowTakes(w, ts_ms) ==
    IF w.start_ms = Null
    THEN w.end_ms = Null \/ ts_ms < w.end_ms.v
    ELSE ts_ms >= w.start_ms.v /\ (w.end_ms = Null \/ ts_ms < w.end_ms.v)

\* for w in reversed(windows): the scan from position i down to 1
RECURSIVE ScanWindows(_, _, _)
ScanWindows(ws, i, ts_ms) ==
    IF i = 0 THEN -1
    ELSE IF WindowTakes(ws[i], ts_ms)
         THEN (IF ws[i].start_ms = Null THEN 0 ELSE ws[i].patch)
         ELSE ScanWindows(ws, i - 1, ts_ms)

\* ts_to_patch(ts_ms, windows); ts is Null or I(n)
ts_to_patch(ts, ws) ==
    IF ts = Null THEN -1 ELSE ScanWindows(ws, Len(ws), ts.v)

\* get_request_id(req): requestId, or id when that is falsy
get_request_id(req) ==
    IF Truthy(Get(req, "requestId", Null)) THEN Get(req, "requestId", Null)
    ELSE Get(req, "id", Null)

\* main: the indices whose request has a truthy id and a truthy timestamp
Mapped(request_data) ==
    {i \in DOMAIN request_data :
        /\ Truthy(get_request_id(request_data[i]))
        /\ Truthy(get_timestamp_ms(request_data[i]))}

\* main: req_id_to_ts; of two requests with one id the later entry stays
\* (request ids are distinct in a session, the later is taken by index)
req_id_to_ts(request_data) ==
    [rid \in {get_request_id(request_data[i]) : i \in Mapped(request_data)} |->
        LET i == CHOOSE j \in Mapped(request_data) :
                    /\ get_request_id(request_data[j]) = rid
                    /\ \A h \in Mapped(request_data) :
                          get_request_id(request_data[h]) = rid => h <= j
        IN get_timestamp_ms(request_data[i])]

\* main: the patch of one operation: req_id_to_ts.get(rid), then ts_to_patch
OpPatch(op, id_to_ts, ws) ==
    LET rid == OpRid(op)
        ts_ms == IF rid \in DOMAIN id_to_ts THEN id_to_ts[rid] ELSE Null
    IN ts_to_patch(ts_ms, ws)

\* uri.get("fsPath") or uri.get("path") or "?"
OpPath(op) ==
    LET uri == Get(op, "uri", EmptyDict)
    IN IF Truthy(Get(uri, "fsPath", Null)) THEN Get(uri, "fsPath", Null)
       ELSE IF Truthy(Get(uri, "path", Null)) THEN Get(uri, "path", Null)
       ELSE S("?")

\* by_patch[patch].append(...) for every operation, in order
RECURSIVE Buckets(_, _, _, _)
Buckets(oplist, id_to_ts, ws, acc) ==
    IF oplist = <<>> THEN acc
    ELSE LET op == Head(oplist)
             patch == OpPatch(op, id_to_ts, ws)
             entry == [type |-> Get(op, "type", S("?")), path |-> OpPath(op),
                       requestId |-> OpRid(op)]
             old == IF patch \in DOMAIN acc THEN acc[patch] ELSE <<>>
         IN Buckets(Tail(oplist), id_to_ts, ws, SetAt(acc, patch, Append(old, entry)))

(***************************************************************************)
(* terminal_archaeology: load_requests and mine_terminal_calls.            *)
(***************************************************************************)
EmptyTA == [requests |-> <<>>, err |-> FALSE]

\* the snapshot branch: requests[idx] = req for every truthy req of the array
SnapshotInto(reqs, items) ==
    [i \in (DOMAIN reqs) \cup {j \in 0..(Len(items) - 1) : Truthy(items[j + 1])} |->
        IF i < Len(items) /\ Truthy(items[i + 1]) THEN items[i + 1] ELSE reqs[i]]

\* base = max(requests.keys(), default=-1) + 1
BaseTA(reqs) ==
    IF DOMAIN reqs = {} THEN 0
    ELSE (CHOOSE x \in DOMAIN reqs : \A y \in DOMAIN reqs : y <= x) + 1

\* the bulk branch: requests[base + i] = req for every truthy req of the list
BulkInto(reqs, items) ==
    LET base == BaseTA(reqs)
    IN [i \in (DOMAIN reqs) \cup {base + j : j \in {h \in 0..(Len(items) - 1) : Truthy(items[h + 1])}} |->
          IF i >= base THEN items[i - base + 1] ELSE reqs[i]]

\* requests[idx].update(v)
Update(req, v) ==
    D([kk \in (DOMAIN req.v) \cup (DOMAIN v.v) |-> IF kk \in DOMAIN v.v THEN v.v[kk] ELSE req.v[kk]])

\* one line of the log (the first line included); d.get on a decoded value
\* that is no object raises, and so does enumerate over a "requests" that is
\* null or a number (a string or an object there is not among the inputs)
ApplyTA(st, line) ==
    IF line.t \in {"blank", "invalid", "absent"} THEN st
    ELSE IF ~IsDict(line) THEN [st EXCEPT !.err = TRUE]
    ELSE
    LET k == Get(line, "k", Get(line, "kind", Null))
        v == Get(line, "v", Get(line, "value", Null))
    IN  IF k = I(0) /\ IsDict(v)
        THEN IF ~IsList(Get(v, "requests", EmptyList))
             THEN [st EXCEPT !.err = TRUE]
             ELSE [st EXCEPT !.requests = SnapshotInto(st.requests, Get(v, "requests", EmptyList).v)]
        ELSE IF k = L(<<REQUESTS>>) /\ IsList(v)
        THEN [st EXCEPT !.requests = BulkInto(st.requests, v.v)]
        ELSE IF IsList(k) /\ Len(k.v) >= 2 /\ k.v[1] = REQUESTS /\ IsInt(k.v[2])
        THEN LET idx == k.v[2].v
                 data == WithStub(st.requests, idx)
             IN IF Len(k.v) = 2 /\ IsDict(v)
                THEN [st EXCEPT !.requests = SetAt(data, idx, Update(data[idx], v))]
                ELSE IF Len(k.v) = 3
                THEN [st EXCEPT !.requests = SetAt(data, idx, Put(data[idx], KeyOf(k.v[3]), v))]
                ELSE [st EXCEPT !.requests = data]
        ELSE st

\* return [requests[i] for i in sorted(requests.keys())]
RequestList(reqs) == LET idxs == Sorted(DOMAIN reqs) IN [n \in 1..Len(idxs) |-> reqs[idxs[n]]]

TERMINAL_TOOL_IDS == {"run_in_terminal", "copilot_runInTerminal"}

\* the response parts mine_terminal_calls keeps
IsTerminalPart(part) ==
    /\ IsDict(part)
    /\ Get(part, "kind", Null) = S("toolInvocationSerialized")
    /\ IsStr(Get(part, "toolId", Null))
    /\ Get(part, "toolId", Null).v \in TERMINAL_TOOL_IDS

\* is_background_call(result_details)
is_background_call(rd) ==
    IF IsDict(rd) /\ "input" \in DOMAIN rd.v THEN FALSE ELSE rd = Null

\* command[:120]
Take(str, n) == IF Len(str) <= n THEN str ELSE SubSeq(str, 1, n)

\* the TerminalCall of one kept part of request req_idx
TerminalCall(req_idx, part) ==
    LET rd == Get(part, "resultDetails", Null)
        command == IF IsDict(rd) THEN Get(rd, "input", S("")) ELSE S("")
    IN [req_idx |-> req_idx,
        tool_call_id |-> Get(part, "toolCallId", S("")),
        command |-> S(Take(command.v, 120)),
        is_background |-> is_background_call(rd),
        result_raw |-> rd]

RECURSIVE CallsOfParts(_, _)
CallsOfParts(req_idx, parts) ==
    IF parts = <<>> THEN <<>>
    ELSE (IF IsTerminalPart(Head(parts)) THEN <<TerminalCall(req_idx, Head(parts))>> ELSE <<>>)
         \o CallsOfParts(req_idx, Tail(parts))

\* req.get on a request that is no dict, or iterating a response that is
\* null or a number, raises
MineRaises(reqlist) ==
    \E n \in 1..Len(reqlist) :
        /\ Truthy(reqlist[n])
        /\ \/ ~IsDict(reqlist[n])
           \/ Get(reqlist[n], "response", EmptyList).t \in {"null", "int"}

\* mine_terminal_calls(requests): req_idx is the position in the list
RECURSIVE MineFrom(_, _)
MineFrom(reqlist, n) ==
    IF n > Len(reqlist) THEN <<>>
    ELSE (IF Truthy(reqlist[n])
          THEN CallsOfParts(n - 1, PartsOf(Get(reqlist[n], "response", EmptyList)))
          ELSE <<>>)
         \o MineFrom(reqlist, n + 1)

mine_terminal_calls(reqlist) == MineFrom(reqlist, 1)

(***************************************************************************)
(* The inputs: snapshot entities and log lines.                            *)
(***************************************************************************)
MaxSnapReplay == 2
MaxLogReplay == 2
MaxSnapDetect == 3
MaxLogDetect == 1
MaxSnapClassify == 3
MaxSnapAnalyze == 2
MaxSnapMarkers == 3
MaxSnapAudit == 2
MaxLogAudit == 2
MaxSnapTerminal == 2
MaxLogTerminal == 2
MaxOps == 2

\* entity p of a session: its requestId and its timestamp (ms since epoch)
Rid(p) == "r" \o ToString(p)
TsAt(p) == 1000 * (p + 1)

ToolPart == D([kind |-> S("toolInvocationSerialized"), toolId |-> S("copilot_readFile")])
MarkerPart(m) == D([kind |-> S("progressTaskSerialized"), content |-> D([value |-> S(m)])])
ResultWith(text) ==
    D([metadata |-> D([summary |-> D([text |-> S(text)]), agentId |-> S("agent")]),
       timings |-> D([totalElapsed |-> I(5)])])

Plain(p) ==
    D([requestId |-> S(Rid(p)), timestamp |-> I(TsAt(p)), response |-> L(<<ToolPart>>)])
\* a summary stored, no marker in the response (yet)
SummaryOnly(p, text) ==
    D([requestId |-> S(Rid(p)), timestamp |-> I(TsAt(p)), result |-> ResultWith(text)])
\* a completed compaction with its summary
Compacted(p, m, text) ==
    D([requestId |-> S(Rid(p)), timestamp |-> I(TsAt(p)),
       response |-> L(<<ToolPart, MarkerPart(m)>>), result |-> ResultWith(text)])
\* a completed compaction whose result holds no summary
CompactedBare(p, m) ==
    D([requestId |-> S(Rid(p)), timestamp |-> I(TsAt(p)),
       response |-> L(<<MarkerPart(m)>>)])
\* a completed compaction on a request without a timestamp
CompactedNoTs(p, m, text) ==
    D([requestId |-> S(Rid(p)),
       response |-> L(<<MarkerPart(m)>>), result |-> ResultWith(text)])

\* a compaction still under way: a progress part whose text is no completed
\* marker, on a request that already holds a summary
Summarizing(p) ==
    D([requestId |-> S(Rid(p)), timestamp |-> I(TsAt(p)),
       response |-> L(<<MarkerPart("Summarizing conversation history...")>>),
       result |-> ResultWith("Y")])

ReplayShapes(p) == {Null, Plain(p), SummaryOnly(p, "X")}

DetectShapes(p) ==
    {EmptyDict, Plain(p), SummaryOnly(p, "X"),
     Compacted(p, "Compacted conversation", "X"),
     Compacted(p, "Summarized conversation history", "Y"),
     CompactedBare(p, "Compacted conversation")}

\* requests with either completed marker, with another progress text, with
\* a marker and no summary, and without any progress part
MarkerShapes(p) ==
    {Plain(p), Summarizing(p),
     Compacted(p, "Compacted conversation", "X"),
     Compacted(p, "Summarized conversation history", "X"),
     Compacted(p, "Summarized conversation history", "Y"),
     CompactedBare(p, "Summarized conversation history")}

ClassifyShapes(p) ==
    {Plain(p),
     Compacted(p, "Compacted conversation", "X"),
     Compacted(p, "Summarized conversation history", "Y"),
     CompactedNoTs(p, "Compacted conversation", "X")}

\* tool invocations: a read whose message holds a markdown link, a write
\* whose message holds a bare URI, a write whose message holds no URI
ReadLinked ==
    D([kind |-> S("toolInvocationSerialized"), toolId |-> S("copilot_readFile"),
       invocationMessage |-> D([value |-> S("Reading [a.md](file:///c%3A/www/a.md), 1 to 5")])])
WriteBare ==
    D([kind |-> S("toolInvocationSerialized"), toolId |-> S("copilot_createFile"),
       invocationMessage |-> S("Created file:///c%3A/www/b%20c.py now")])
WriteNoPath ==
    D([kind |-> S("toolInvocationSerialized"), toolId |-> S("copilot_replaceString"),
       invocationMessage |-> S("Replacing 3 lines in [a.md](a.md)")])
\* terminal calls: with the command text, with resultDetails that holds no
\* input, and without resultDetails
TermWithInput ==
    D([kind |-> S("toolInvocationSerialized"), toolId |-> S("run_in_terminal"),
       resultDetails |-> D([input |-> S("ls -la"), output |-> S("total 0")])])
TermNoInput ==
    D([kind |-> S("toolInvocationSerialized"), toolId |-> S("run_in_terminal"),
       resultDetails |-> D([output |-> S("total 0")])])
TermBare ==
    D([kind |-> S("toolInvocationSerialized"), toolId |-> S("run_in_terminal")])

\* a request whose read and command are recoverable
Worked(p) ==
    D([requestId |-> S(Rid(p)), timestamp |-> I(TsAt(p)),
       response |-> L(<<ReadLinked, TermWithInput>>)])
\* a request whose command text and written path are not recoverable
Untracked(p) ==
    D([requestId |-> S(Rid(p)), timestamp |-> I(TsAt(p)),
       response |-> L(<<TermNoInput, WriteNoPath>>)])
\* a request without a timestamp
NoTs(p) ==
    D([requestId |-> S(Rid(p)), response |-> L(<<WriteBare, TermBare>>)])
\* a request stamped with the epoch itself, timestamp 0
AtEpoch(p) ==
    D([requestId |-> S(Rid(p)), timestamp |-> I(0), response |-> L(<<ToolPart>>)])

\* a request that called a tool outside the read, write and terminal ids
FetchPage ==
    D([kind |-> S("toolInvocationSerialized"), toolId |-> S("copilot_fetchWebPage"),
       invocationMessage |-> S("Fetched file:///c%3A/www/page.html")])
Unrecognized(p) ==
    D([requestId |-> S(Rid(p)), timestamp |-> I(TsAt(p)),
       response |-> L(<<FetchPage, WriteBare>>)])

AnalyzeShapes(p) ==
    {Worked(p), Untracked(p), NoTs(p), AtEpoch(p), Unrecognized(p),
     Compacted(p, "Compacted conversation", "X"),
     Compacted(p, "Summarized conversation history", "Y")}

\* an operation of the chatEditingSessions timeline
Op(type, path, rid) ==
    D([type |-> S(type), uri |-> D([fsPath |-> S(path)]), requestId |-> S(rid),
       epoch |-> I(1)])

\* operations of the first two requests, and one whose requestId is unknown
Operations ==
    {Op("create", "a.py", Rid(0)), Op("textEdit", "a.py", Rid(1)),
     Op("create", "b.py", "unknown-request")}

\* every operation list of length n
OpLists(n) == [1..n -> Operations]

\* the snapshot line: kind 0, v.requests = the entity array
SnapshotLine(reqs) == D([kind |-> I(0), v |-> D([requests |-> L(reqs)])])

\* every entity array of length n whose element p (0-based) is in Shapes(p)
ArraysOf(Shapes(_), n) ==
    {a \in [1..n -> UNION {Shapes(p) : p \in 0..(n - 1)}] :
        \A k \in 1..n : a[k] \in Shapes(k - 1)}

Patch(kind, path, val) == D([kind |-> I(kind), k |-> L(path), v |-> val])

Idx == 0..2

\* lines that json.loads decodes to something other than an object
NonObjectLines == {L(<<I(1)>>), I(42)}

\* first lines that are not a snapshot record: no line at all, a line that
\* does not decode, a list, a kind-1 and a kind-2 patch, a kind-0 record
\* without the entity array
OtherFirstLines ==
    {NoLine, BadLine, L(<<I(1)>>),
     Patch(1, <<REQUESTS, I(0), S("result")>>, ResultWith("X")),
     Patch(2, <<REQUESTS>>, L(<<Plain(0)>>)),
     D([kind |-> I(0)]),
     D([kind |-> I(0), v |-> D([requests |-> Null])])}

\* deep kind-1 patches whose path runs into a list (response addressed by
\* position), into a string field, and below the summary text
DeepLines ==
    {Patch(1, <<REQUESTS, I(0), S("response"), I(0), S("kind")>>, S("x")),
     Patch(1, <<REQUESTS, I(0), S("requestId"), S("a")>>, S("x")),
     Patch(1, <<REQUESTS, I(0), S("result"), S("metadata"), S("summary"), S("text"),
                S("lang")>>, S("en"))}

ReplayLines ==
    {BadLine, Patch(3, <<REQUESTS>>, EmptyList)}
    \cup NonObjectLines
    \cup DeepLines
    \cup {Patch(2, <<REQUESTS>>, L(<<Plain(7)>>)),
          Patch(2, <<REQUESTS>>, L(<<Null, Plain(8)>>))}
    \cup {Patch(1, <<REQUESTS, I(i), S("response")>>,
                L(<<MarkerPart("Compacted conversation")>>)) : i \in Idx}
    \cup {Patch(1, <<REQUESTS, I(i), S("result"), S("metadata"), S("summary"), S("text")>>,
                S("Y")) : i \in Idx}
    \cup {Patch(2, <<REQUESTS, I(i), S("response")>>, L(<<ToolPart>>)) : i \in Idx}
    \cup {Patch(2, <<REQUESTS, I(i), S("response")>>,
                L(<<MarkerPart("Compacted conversation"), ToolPart>>)) : i \in Idx}

\* a bulk append of one request that already holds a completed compaction
BulkCompacted ==
    Patch(2, <<REQUESTS>>, L(<<Compacted(9, "Compacted conversation", "Y")>>))

DetectLines ==
    {Patch(2, <<REQUESTS, I(i), S("response")>>,
           L(<<MarkerPart("Compacted conversation")>>)) : i \in Idx}
    \cup {BulkCompacted}

\* lines of a log with recovered conditions: a line that is not JSON, a
\* kind-1 set that may name an index no entity holds yet, a response append
AuditShapes(p) == {Plain(p), Compacted(p, "Compacted conversation", "X")}

AuditLines ==
    {BadLine, Patch(2, <<REQUESTS, I(0), S("response")>>, L(<<ToolPart>>))}
    \cup {Patch(1, <<REQUESTS, I(i), S("modelId")>>, S("gpt-4")) : i \in Idx}

\* a terminal call under the tool id of the Copilot extension
TermCopilot ==
    D([kind |-> S("toolInvocationSerialized"), toolId |-> S("copilot_runInTerminal"),
       toolCallId |-> S("call-1"),
       resultDetails |-> D([input |-> S("git status"), output |-> S("clean")])])

TerminalShapes(p) == {Plain(p), Worked(p)}

\* response appends that bring terminal calls, alone or after another part
TerminalLines ==
    {Patch(2, <<REQUESTS, I(i), S("response")>>, L(<<TermBare>>)) : i \in Idx}
    \cup {Patch(2, <<REQUESTS, I(i), S("response")>>, L(<<ToolPart, TermCopilot>>)) : i \in Idx}

QueryTs == {I(n) : n \in {999, 1000, 1999, 2000, 2999, 3000, 3999}} \cup {Null}

\* before the first ts_to_patch call
NoQuery == [t |-> "none", v |-> 0]

(***************************************************************************)
(* The state machine.                                                      *)
(***************************************************************************)
AllReplaying == [am |-> "replay", ce |-> "replay", gt |-> "replay", ta |-> "replay"]

\* the state once the first line has been read by the three scripts
InitFrom(first) ==
    /\ line0 = first
    /\ pc = AllReplaying
    /\ log = <<>>
    /\ am = LoadSnapshotAM(first)
    /\ ce = LoadSnapshotCE(first)
    /\ gt = LoadSnapshotGT(first)
    /\ prev = <<>>
    /\ requests = <<>>
    /\ windows = <<>>
    /\ true_reboots = <<>>
    /\ compactions = <<>>
    /\ ce_windows = <<>>
    /\ op_ts = NoQuery
    /\ op_patch = -1
    /\ by_patch = <<>>
    /\ analyses = <<>>
    /\ ta = ApplyTA(EmptyTA, first)
    /\ calls = <<>>

\* a session without chatEditingSessions operations
InitWith(reqs) == InitFrom(SnapshotLine(reqs)) /\ ops = <<>>

\* one more line of the log, read by the three replay loops
ApplyLine(line) ==
    /\ pc = AllReplaying
    /\ log' = Append(log, line)
    /\ prev' = Append(prev, [am |-> am, ce |-> ce, gt |-> gt])
    /\ am' = IF am.err THEN am ELSE ApplyAM(am, line)
    /\ ce' = IF ce.err THEN ce ELSE ApplyCE(ce, line)
    /\ gt' = IF gt.err THEN gt ELSE ApplyGT(gt, line)
    /\ ta' = IF ta.err THEN ta ELSE ApplyTA(ta, line)
    /\ UNCHANGED <<pc, requests, windows, true_reboots, compactions, ce_windows, op_ts, op_patch>>
    /\ UNCHANGED <<line0, ops, by_patch, analyses, calls>>

\* agent_manifest at the end of the log: the Request list and the windows
RunManifest ==
    /\ pc.am = "replay"
    /\ ~am.err
    /\ requests' = RequestsOf(am.req_data)
    /\ IF ComputeRaises(requests')
       THEN windows' = <<>> /\ pc' = [pc EXCEPT !.am = "error"]
       ELSE windows' = compute_patch_windows(requests') /\ pc' = [pc EXCEPT !.am = "done"]
    /\ UNCHANGED <<log, am, ce, gt, prev, true_reboots, compactions, ce_windows, op_ts, op_patch>>
    /\ UNCHANGED <<line0, ops, by_patch, analyses, ta, calls>>

\* count_reboots_ground_truth at the end of the log
RunGroundTruth ==
    /\ pc.gt = "replay"
    /\ ~gt.err
    /\ true_reboots' = count_reboots(gt.request_data)
    /\ pc' = [pc EXCEPT !.gt = "done"]
    /\ UNCHANGED <<log, am, ce, gt, prev, requests, windows, compactions, ce_windows, op_ts, op_patch>>
    /\ UNCHANGED <<line0, ops, by_patch, analyses, ta, calls>>

\* correlate_edits_to_patches at the end of the log
RunCorrelate ==
    /\ pc.ce = "replay"
    /\ ~ce.err
    /\ compactions' = compactions_of(ce.request_data)
    /\ ce_windows' = build_reboot_windows(ce.request_data)
    /\ pc' = [pc EXCEPT !.ce = "done"]
    /\ UNCHANGED <<log, am, ce, gt, prev, requests, windows, true_reboots, op_ts, op_patch>>
    /\ UNCHANGED <<line0, ops, by_patch, analyses, ta, calls>>

\* correlate_edits_to_patches.main: every operation is put in its patch
CorrelateOps ==
    /\ pc.ce = "done"
    /\ by_patch' = Buckets(ops, req_id_to_ts(ce.request_data), ce_windows, <<>>)
    /\ pc' = [pc EXCEPT !.ce = "grouped"]
    /\ UNCHANGED <<log, am, ce, gt, prev, requests, windows, true_reboots, compactions,
                   ce_windows, op_ts, op_patch, line0, ops, analyses, ta, calls>>

\* agent_manifest.main: analyze_patch on every window
Analyze ==
    /\ pc.am = "done"
    /\ analyses' = [k \in 1..Len(windows) |->
                       analyze_patch(windows[k], load_editing_ops(ops))]
    /\ pc' = [pc EXCEPT !.am = "analyzed"]
    /\ UNCHANGED <<log, am, ce, gt, prev, requests, windows, true_reboots, compactions,
                   ce_windows, op_ts, op_patch, line0, ops, by_patch, ta, calls>>

\* terminal_archaeology.main: the terminal calls of the loaded requests
MineTerminal ==
    /\ pc.ta = "replay"
    /\ ~ta.err
    /\ IF MineRaises(RequestList(ta.requests))
       THEN calls' = <<>> /\ pc' = [pc EXCEPT !.ta = "error"]
       ELSE calls' = mine_terminal_calls(RequestList(ta.requests))
            /\ pc' = [pc EXCEPT !.ta = "done"]
    /\ UNCHANGED <<log, am, ce, gt, prev, requests, windows, true_reboots, compactions,
                   ce_windows, op_ts, op_patch, line0, ops, by_patch, analyses, ta>>

\* correlate_edits_to_patches.main: one operation's timestamp is classified
Classify(ts) ==
    /\ pc.ce = "done"
    /\ op_ts' = ts
    /\ op_patch' = ts_to_patch(ts, ce_windows)
    /\ UNCHANGED <<pc, log, am, ce, gt, prev, requests, windows, true_reboots, compactions,
                   ce_windows>>
    /\ UNCHANGED <<line0, ops, by_patch, analyses, ta, calls>>

\* the whole pipeline: replay, then boundary detection and windows
Init == \E n \in 0..MaxSnapDetect : \E reqs \in ArraysOf(DetectShapes, n) : InitWith(reqs)

ReadLine == \E line \in DetectLines : Len(log) < MaxLogDetect /\ ApplyLine(line)

Next == ReadLine \/ RunManifest \/ RunGroundTruth \/ RunCorrelate

Spec == Init /\ [][Next]_vars

\* replay alone, over a wider set of log lines
InitReplay ==
    \/ \E n \in 0..MaxSnapReplay : \E reqs \in ArraysOf(ReplayShapes, n) : InitWith(reqs)
    \/ \E first \in OtherFirstLines : InitFrom(first) /\ ops = <<>>

ReplayLine == \E line \in ReplayLines : Len(log) < MaxLogReplay /\ ApplyLine(line)

NextReplay == ReplayLine

SpecReplay == InitReplay /\ [][NextReplay]_vars

\* the timestamp classifier over the windows of a snapshot, next to the
\* windows agent_manifest computes by position for the same snapshot
InitClassify ==
    \E n \in 0..MaxSnapClassify : \E reqs \in ArraysOf(ClassifyShapes, n) : InitWith(reqs)

ClassifyOp == \E ts \in QueryTs : Classify(ts)

NextClassify == RunCorrelate \/ ClassifyOp \/ RunManifest

SpecClassify == InitClassify /\ [][NextClassify]_vars

\* boundary detection by the three scripts over snapshots that mix the two
\* completed markers and other progress texts
InitMarkers ==
    \E n \in 0..MaxSnapMarkers : \E reqs \in ArraysOf(MarkerShapes, n) : InitWith(reqs)

NextMarkers == RunManifest \/ RunGroundTruth \/ RunCorrelate

SpecMarkers == InitMarkers /\ [][NextMarkers]_vars

\* agent_manifest over logs with malformed lines and auto-created entities
InitAudit ==
    \E n \in 0..MaxSnapAudit : \E reqs \in ArraysOf(AuditShapes, n) : InitWith(reqs)

AuditLine == \E line \in AuditLines : Len(log) < MaxLogAudit /\ ApplyLine(line)

NextAudit == AuditLine \/ RunManifest \/ Analyze

SpecAudit == InitAudit /\ [][NextAudit]_vars

\* terminal_archaeology over a snapshot and later response appends
InitTerminal ==
    \E n \in 0..MaxSnapTerminal : \E reqs \in ArraysOf(TerminalShapes, n) : InitWith(reqs)

TerminalLine == \E line \in TerminalLines : Len(log) < MaxLogTerminal /\ ApplyLine(line)

NextTerminal == TerminalLine \/ MineTerminal

SpecTerminal == InitTerminal /\ [][NextTerminal]_vars

\* the per-patch analysis of agent_manifest and the grouping of operations
\* by correlate_edits_to_patches, over a snapshot and an operation list
InitAnalyze ==
    \E n \in 0..MaxSnapAnalyze : \E reqs \in ArraysOf(AnalyzeShapes, n) :
        \E m \in 0..MaxOps : \E oplist \in OpLists(m) :
            InitFrom(SnapshotLine(reqs)) /\ ops = oplist

NextAnalyze == RunManifest \/ Analyze \/ RunCorrelate \/ CorrelateOps

SpecAnalyze == InitAnalyze /\ [][NextAnalyze]_vars

(***************************************************************************)
(* Properties.                                                             *)
(***************************************************************************)
\* the response parts of entity i in a store's data (none when absent)
RespIn(data, i) ==
    IF i \in DOMAIN data THEN PartsOf(Get(data[i], "response", EmptyList)) ELSE <<>>

\* is the decoded line a response append on entity i with a list value
IsResponseAppend(line, i) ==
    /\ IsDict(line)
    /\ Get(line, "kind", Null) = I(2)
    /\ Get(line, "k", EmptyList) = L(<<REQUESTS, I(i), S("response")>>)
    /\ IsList(Get(line, "v", Null))

\* the last two lines read are response appends on entity i
TwoAppends(i) ==
    /\ Len(log) >= 2
    /\ IsResponseAppend(log[Len(log) - 1], i)
    /\ IsResponseAppend(log[Len(log)], i)

\* (previous response) ++ A ++ B for the last two lines, from the store data
\* "before" as it was two lines ago
Concatenated(before, i) ==
    RespIn(before, i) \o log[Len(log) - 1].v["v"].v \o log[Len(log)].v["v"].v

\* C1: two consecutive response-append patches with list values A then B on
\* the same entity leave its response equal to (previous response) ++ A ++ B,
\* in each of the three replay loops; nothing already present is replaced or
\* reordered.
C1_AppendsConcatenate ==
    \A i \in Idx :
        TwoAppends(i) =>
            LET before == prev[Len(prev) - 1] IN
            /\ ~am.err => RespIn(am.req_data, i) = Concatenated(before.am.req_data, i)
            /\ ~ce.err => RespIn(ce.request_data, i) = Concatenated(before.ce.request_data, i)
            /\ ~gt.err => RespIn(gt.request_data, i) = Concatenated(before.gt.request_data, i)

\* C1 witness: entity 0 had a response, then received two different appends
C1_Witness ==
    /\ TwoAppends(0)
    /\ log[Len(log) - 1] # log[Len(log)]
    /\ RespIn(prev[Len(prev) - 1].am.req_data, 0) # <<>>
    /\ Len(RespIn(am.req_data, 0)) = 4
    /\ RespIn(gt.request_data, 0) = RespIn(am.req_data, 0)
    /\ RespIn(ce.request_data, 0) = RespIn(am.req_data, 0)

\* the positions (0-based) of the boundaries, read off the manifest windows
Boundaries == [k \in 1..(Len(windows) - 1) |-> windows[k].req_end]

\* the last element of the increasing sequence q that is below p, or -1
LastBelow(q, p) ==
    IF \E k \in 1..Len(q) : q[k] < p
    THEN q[CHOOSE k \in 1..Len(q) : q[k] < p /\ \A j \in 1..Len(q) : q[j] < p => j <= k]
    ELSE -1

InSeq(q, x) == \E k \in 1..Len(q) : q[k] = x

\* the request at position p is emitted exactly when its hash differs from
\* the hash of the boundary emitted last before it (or there is none)
EmittedRightAM(p) ==
    LET b == LastBelow(Boundaries, p) IN
    InSeq(Boundaries, p) <=>
        (b = -1 \/ requests[p + 1].summary_hash # requests[b + 1].summary_hash)

\* the same for the reboots of count_reboots, by request index
RebootIdxs == [k \in 1..Len(true_reboots) |-> true_reboots[k].req_idx]
HashAtGT(idx) ==
    (CHOOSE r \in {true_reboots[k] : k \in 1..Len(true_reboots)} : r.req_idx = idx).summary_hash
EmittedRightGT(idx) ==
    LET b == LastBelow(RebootIdxs, idx) IN
    InSeq(RebootIdxs, idx) <=>
        (b = -1 \/ HashGT(get_summary_text(gt.request_data[idx])) # HashAtGT(b))

\* and for the compactions of build_reboot_windows
CompactionIdxs == [k \in 1..Len(compactions) |-> compactions[k].req_idx]
HashAtCE(idx) ==
    (CHOOSE c \in {compactions[k] : k \in 1..Len(compactions)} : c.req_idx = idx).hash
EmittedRightCE(idx) ==
    LET b == LastBelow(CompactionIdxs, idx) IN
    InSeq(CompactionIdxs, idx) <=>
        (b = -1 \/ HashCE(get_summary_text(ce.request_data[idx])) # HashAtCE(b))

\* the summary texts of the entities of data that carry a marker, by index
RECURSIVE MarkerSummaries(_, _)
MarkerSummaries(data, idxs) ==
    IF idxs = <<>> THEN <<>>
    ELSE LET rest == MarkerSummaries(data, Tail(idxs))
         IN IF get_compaction_marker(data[Head(idxs)]) # Null
            THEN <<get_summary_text(data[Head(idxs)])>> \o rest
            ELSE rest

SummariesOf(data) == MarkerSummaries(data, Sorted(DOMAIN data))

AllDone == pc.am = "done" /\ pc.ce = "done" /\ pc.gt = "done"

\* C2: among the entities with a completion marker and an extractable
\* summary, in index order, a boundary is emitted exactly for those whose
\* summary hash differs from the hash of the boundary emitted last before
\* (the first always); so summaries X,X,Y give 2 boundaries and X,Y,X give 3,
\* in each of the three scripts.
C2_BoundaryDedup ==
    /\ pc.am = "done" =>
        /\ \A p \in 0..(Len(requests) - 1) :
              (requests[p + 1].is_reboot /\ Truthy(requests[p + 1].summary_hash))
                  => EmittedRightAM(p)
        /\ SummariesOf(am.req_data) = <<S("X"), S("X"), S("Y")>> => Len(Boundaries) = 2
        /\ SummariesOf(am.req_data) = <<S("X"), S("Y"), S("X")>> => Len(Boundaries) = 3
    /\ pc.gt = "done" =>
        /\ \A idx \in DOMAIN gt.request_data :
              (/\ get_compaction_marker(gt.request_data[idx]) # Null
               /\ get_summary_text(gt.request_data[idx]) # Null)
                  => EmittedRightGT(idx)
        /\ SummariesOf(gt.request_data) = <<S("X"), S("X"), S("Y")>> => Len(true_reboots) = 2
        /\ SummariesOf(gt.request_data) = <<S("X"), S("Y"), S("X")>> => Len(true_reboots) = 3
    /\ pc.ce = "done" =>
        /\ \A idx \in DOMAIN ce.request_data :
              (/\ get_compaction_marker(ce.request_data[idx]) # Null
               /\ Truthy(get_summary_text(ce.request_data[idx])))
                  => EmittedRightCE(idx)
        /\ SummariesOf(ce.request_data) = <<S("X"), S("X"), S("Y")>> => Len(compactions) = 2
        /\ SummariesOf(ce.request_data) = <<S("X"), S("Y"), S("X")>> => Len(compactions) = 3

\* C2 witness: summaries X,Y,X, three boundaries in each script
C2_Witness ==
    /\ AllDone
    /\ SummariesOf(am.req_data) = <<S("X"), S("Y"), S("X")>>
    /\ Len(Boundaries) = 3
    /\ Len(true_reboots) = 3
    /\ Len(compactions) = 3

\* C3: for a non-empty request list, compute_patch_windows numbers the
\* windows 0..N in order, window 0 starts at position 0, each next window
\* starts right after the end of the one before, the last ends at the last
\* request, and every position lies in exactly one window.
C3_WindowTiling ==
    (pc.am = "done" /\ Len(requests) > 0) =>
        /\ Len(windows) >= 1
        /\ \A k \in 1..Len(windows) : windows[k].patch = k - 1
        /\ windows[1].req_start = 0
        /\ \A k \in 1..(Len(windows) - 1) :
              windows[k + 1].req_start = windows[k].req_end + 1
        /\ windows[Len(windows)].req_end = Len(requests) - 1
        /\ \A p \in 0..(Len(requests) - 1) :
              Cardinality({k \in 1..Len(windows) :
                              windows[k].req_start <= p /\ p <= windows[k].req_end}) = 1

\* C3 witness: three windows over three requests, the middle boundary inside
C3_Witness ==
    /\ pc.am = "done"
    /\ Len(requests) = 3
    /\ Len(windows) = 3
    /\ windows[3].req_start = 2
    /\ windows[3].req_end = 2

\* the request indices held by a manifest window
WindowIdxs(w) == [k \in 1..Len(w.requests) |-> w.requests[k].idx]

\* a snapshot of two entities without markers, entity 1 with a summary, and
\* one line read: a response append on entity 1 that carries a marker
EndToEndCase ==
    /\ Len(log) = 1
    /\ IsResponseAppend(log[1], 1)
    /\ FirstMarker(log[1].v["v"].v) # Null
    /\ prev[1].am.next_idx = 2
    /\ DOMAIN prev[1].am.req_data = {0, 1}
    /\ SummariesOf(prev[1].am.req_data) = <<>>
    /\ Truthy(get_summary_text(prev[1].am.req_data[1]))

\* C4: the request carrying boundary k is the last of window k and the next
\* request is the first of window k+1; end to end, a 2-entity snapshot whose
\* entity 1 receives an appended completion marker with a summary gives one
\* boundary at index 1, window 0 = {0, 1} and a window 1 with only entities
\* after index 1.
C4_BoundaryPlacement ==
    pc.am = "done" =>
        /\ \A k \in 1..(Len(windows) - 1) :
              /\ requests[windows[k].req_end + 1].is_reboot
              /\ windows[k + 1].req_start = windows[k].req_end + 1
        /\ EndToEndCase =>
              /\ Len(windows) = 2
              /\ requests[windows[1].req_end + 1].idx = 1
              /\ WindowIdxs(windows[1]) = <<0, 1>>
              /\ \A k \in 1..Len(windows[2].requests) : windows[2].requests[k].idx > 1

\* the end-to-end case on two ordinary (non-empty) entities
C4_OrdinaryCase ==
    /\ pc.am = "done"
    /\ EndToEndCase
    /\ Truthy(prev[1].am.req_data[0])
    /\ WindowIdxs(windows[1]) = <<0, 1>>

\* the timestamps of the boundaries, in patch order
BoundaryTs == [k \in 1..Len(compactions) |-> compactions[k].ts_ms]

KnownIncreasing ==
    /\ \A k \in 1..Len(BoundaryTs) : BoundaryTs[k] # Null
    /\ \A k \in 1..(Len(BoundaryTs) - 1) : BoundaryTs[k].v < BoundaryTs[k + 1].v

\* C5: with known, strictly increasing boundary timestamps t1 < ... < tN and
\* a non-null timestamp ts, ts_to_patch returns the k in 0..N with
\* t_k <= ts < t_(k+1) (closed left, open right), never the unresolved -1;
\* with boundaries [1000, 2000]: 999 -> 0, 1000 -> 1, 1999 -> 1, 2000 -> 2.
C5_Classifier ==
    (pc.ce = "done" /\ op_ts \notin {NoQuery, Null} /\ KnownIncreasing) =>
        /\ op_patch \in 0..Len(BoundaryTs)
        /\ op_patch >= 1 => BoundaryTs[op_patch].v <= op_ts.v
        /\ op_patch < Len(BoundaryTs) => op_ts.v < BoundaryTs[op_patch + 1].v
        /\ BoundaryTs = <<I(1000), I(2000)>> =>
              /\ op_ts = I(999) => op_patch = 0
              /\ op_ts = I(1000) => op_patch = 1
              /\ op_ts = I(1999) => op_patch = 1
              /\ op_ts = I(2000) => op_patch = 2

\* C5 witness: boundaries at 1000 and 2000, the timestamp 2000 in window 2
C5_Witness ==
    /\ pc.ce = "done"
    /\ BoundaryTs = <<I(1000), I(2000)>>
    /\ op_ts = I(2000)
    /\ op_patch = 2

NO_SUMMARY == S("NO_SUMMARY")

\* C7: a completion marker without an extractable summary carries a sentinel
\* hash: it is emitted as a boundary whenever the boundary emitted last
\* before it had a content hash or there was none, and summaries X, none, X
\* give 3 boundaries, in each of the three scripts.
C7_NoSummarySentinel ==
    /\ pc.am = "done" =>
        /\ \A p \in 0..(Len(requests) - 1) :
              LET b == LastBelow(Boundaries, p) IN
              (/\ requests[p + 1].is_reboot
               /\ ~Truthy(requests[p + 1].summary_hash)
               /\ (b = -1 \/ Truthy(requests[b + 1].summary_hash)))
                  => InSeq(Boundaries, p)
        /\ SummariesOf(am.req_data) = <<S("X"), Null, S("X")>> => Len(Boundaries) = 3
    /\ pc.gt = "done" =>
        /\ \A idx \in DOMAIN gt.request_data :
              LET b == LastBelow(RebootIdxs, idx) IN
              (/\ get_compaction_marker(gt.request_data[idx]) # Null
               /\ get_summary_text(gt.request_data[idx]) = Null
               /\ (b = -1 \/ HashAtGT(b) # NO_SUMMARY))
                  => InSeq(RebootIdxs, idx)
        /\ SummariesOf(gt.request_data) = <<S("X"), Null, S("X")>> => Len(true_reboots) = 3
    /\ pc.ce = "done" =>
        /\ \A idx \in DOMAIN ce.request_data :
              LET b == LastBelow(CompactionIdxs, idx) IN
              (/\ get_compaction_marker(ce.request_data[idx]) # Null
               /\ ~Truthy(get_summary_text(ce.request_data[idx]))
               /\ (b = -1 \/ HashAtCE(b) # NO_SUMMARY))
                  => InSeq(CompactionIdxs, idx)
        /\ SummariesOf(ce.request_data) = <<S("X"), Null, S("X")>> => Len(compactions) = 3

\* C8: no two consecutive emitted boundary events (reboot_indices,
\* true_reboots, compactions) have the same summary hash.
C8_NeighboursDiffer ==
    /\ pc.am = "done" =>
        \A k \in 1..(Len(Boundaries) - 1) :
            requests[Boundaries[k] + 1].summary_hash
                # requests[Boundaries[k + 1] + 1].summary_hash
    /\ pc.gt = "done" =>
        \A k \in 1..(Len(true_reboots) - 1) :
            true_reboots[k].summary_hash # true_reboots[k + 1].summary_hash
    /\ pc.ce = "done" =>
        \A k \in 1..(Len(compactions) - 1) :
            compactions[k].hash # compactions[k + 1].hash

\* C8 witness: summaries X,X,Y collapse to two boundaries in each script
C8_Witness ==
    /\ AllDone
    /\ SummariesOf(gt.request_data) = <<S("X"), S("X"), S("Y")>>
    /\ Len(Boundaries) = 2
    /\ Len(true_reboots) = 2
    /\ Len(compactions) = 2

\* is the decoded line a kind-1 patch of depth > 3 on one request
IsNestedSet(line) ==
    /\ IsDict(line)
    /\ Get(line, "kind", Null) = I(1)
    /\ AddressesRequest(Get(line, "k", EmptyList))
    /\ Len(Get(line, "k", EmptyList).v) > 3

Missing == [t |-> "missing", v |-> 0]

\* the value reached from x along the keys of path, or Missing
RECURSIVE Descend(_, _)
Descend(x, path) ==
    IF path = <<>> THEN x
    ELSE IF IsDict(x) /\ KeyOf(Head(path)) \in DOMAIN x.v
         THEN Descend(x.v[KeyOf(Head(path))], Tail(path))
         ELSE Missing

\* every key of old off the path is in new with the same value, at each level
RECURSIVE KeepsOthers(_, _, _)
KeepsOthers(old, new, path) ==
    IF ~IsDict(old) \/ path = <<>> THEN TRUE
    ELSE LET key == KeyOf(Head(path)) IN
         /\ IsDict(new)
         /\ \A k \in (DOMAIN old.v) \ {key} : k \in DOMAIN new.v /\ new.v[k] = old.v[k]
         /\ key \in DOMAIN old.v =>
               /\ key \in DOMAIN new.v
               /\ KeepsOthers(old.v[key], new.v[key], Tail(path))

\* the path of line, below entity i, passes through a value of store data
\* that exists and is not a dict
Blocked(data, line) ==
    LET keys == line.v["k"].v
        i == keys[2].v
        path == SubSeq(keys, 3, Len(keys))
    IN /\ i \in DOMAIN data
       /\ \E m \in 1..(Len(path) - 1) :
             LET x == Descend(data[i], SubSeq(path, 1, m))
             IN x # Missing /\ ~IsDict(x)

\* the nested set of line, from store data "before" to "after": the leaf
\* holds the value and nothing else of the entity changed
NestedSetRight(before, after, line) ==
    LET keys == line.v["k"].v
        i == keys[2].v
        path == SubSeq(keys, 3, Len(keys))
        old == IF i \in DOMAIN before THEN before[i] ELSE EmptyDict
    IN /\ i \in DOMAIN after
       /\ Descend(after[i], path) = line.v["v"]
       /\ KeepsOthers(old, after[i], path)
       /\ \A j \in (DOMAIN before) \ {i} : j \in DOMAIN after /\ after[j] = before[j]

\* C9: a kind-1 patch with path [requests, i, f, s1, ..., sn] sets only the
\* leaf s1..sn inside field f of entity i, creating missing mappings on the
\* way, and leaves every other key under f and every other field unchanged,
\* in each of the three replay loops.
C9_NestedSetOnlyLeaf ==
    (Len(log) >= 1 /\ IsNestedSet(log[Len(log)])) =>
        /\ (~am.err /\ ~Blocked(prev[Len(prev)].am.req_data, log[Len(log)])) =>
              NestedSetRight(prev[Len(prev)].am.req_data, am.req_data, log[Len(log)])
        /\ (~ce.err /\ ~Blocked(prev[Len(prev)].ce.request_data, log[Len(log)])) =>
              NestedSetRight(prev[Len(prev)].ce.request_data, ce.request_data, log[Len(log)])
        /\ (~gt.err /\ ~Blocked(prev[Len(prev)].gt.request_data, log[Len(log)])) =>
              NestedSetRight(prev[Len(prev)].gt.request_data, gt.request_data, log[Len(log)])

\* agent_manifest alone does what C9 says on these lines
C9_ManifestOnly ==
    (/\ Len(log) >= 1
     /\ IsNestedSet(log[Len(log)])
     /\ ~am.err
     /\ ~Blocked(prev[Len(prev)].am.req_data, log[Len(log)])) =>
        NestedSetRight(prev[Len(prev)].am.req_data, am.req_data, log[Len(log)])

\* is the decoded line a bulk append: kind 2, path exactly [requests], a list
IsBulkAppend(line) ==
    /\ IsDict(line)
    /\ Get(line, "kind", Null) = I(2)
    /\ Get(line, "k", EmptyList) = L(<<REQUESTS>>)
    /\ IsList(Get(line, "v", Null))

\* the number of elements bulk-appended by the first n lines of the log
RECURSIVE BulkAppended(_)
BulkAppended(n) ==
    IF n = 0 THEN 0
    ELSE BulkAppended(n - 1)
         + (IF IsBulkAppend(log[n]) THEN Len(log[n].v["v"].v) ELSE 0)

\* the length of the entity array before the last line: the snapshot's
\* length plus every element bulk-appended earlier
ArrayLenBefore == prev[1].am.next_idx + BulkAppended(Len(log) - 1)

\* element j (1-based) of the list of the last line is entity L + j - 1
LandsInOrder(data) ==
    LET items == log[Len(log)].v["v"].v IN
    \A j \in 1..Len(items) :
        IsDict(items[j]) =>
            /\ (ArrayLenBefore + j - 1) \in DOMAIN data
            /\ data[ArrayLenBefore + j - 1] = items[j]

\* C10: a kind-2 patch with path exactly [requests] and a list of n elements
\* puts element j at index L + j, L being the length of the entity array
\* before the patch (snapshot length plus all earlier bulk-appended
\* elements), in agent_manifest and in correlate_edits_to_patches.
C10_BulkAppendIndices ==
    (Len(log) >= 1 /\ IsBulkAppend(log[Len(log)])) =>
        /\ ~am.err => LandsInOrder(am.req_data)
        /\ ~ce.err => LandsInOrder(ce.request_data)

\* the largest of a non-empty finite set of integers
MaxOf(ks) == CHOOSE x \in ks : \A y \in ks : y <= x

\* the highest entity index the log refers to: the last position of the
\* snapshot array and of every bulk append, and every index a patch names
HighestIndex == MaxOf((DOMAIN am.req_data) \cup {am.next_idx - 1})

\* C11: load_requests returns exactly one entity for every index from 0 to
\* the highest index referenced in the log, in increasing index order; an
\* index never populated, or holding only an empty stub, is returned as an
\* empty entity, so the position of an entity in the list equals its index.
C11_ReplayShape ==
    pc.am # "replay" =>
        /\ Len(requests) = HighestIndex + 1
        /\ \A p \in 0..(Len(requests) - 1) : requests[p + 1].idx = p

\* the order half of C11: the returned entities are in increasing index order
C11_IncreasingOrder ==
    pc.am # "replay" =>
        \A p \in 1..(Len(requests) - 1) : requests[p].idx < requests[p + 1].idx

\* is the decoded first line a kind-0 snapshot record holding the entity array
IsSnapshotRecord(first) ==
    /\ IsDict(first)
    /\ Get(first, "kind", Null) = I(0)
    /\ IsDict(Get(first, "v", Null))
    /\ IsList(Get(Get(first, "v", EmptyDict), "requests", Null))

\* a script has aborted on the first line and holds no entity state
Aborted(st, data) == st.err /\ data = <<>>

\* C12: when the first line of the log is not a kind-0 snapshot record that
\* holds the entity array (a kind-1 or kind-2 patch record, or no line at
\* all), each of the three replay loops aborts with an error and holds no
\* entity state, whatever lines follow.
C12_SnapshotFirst ==
    ~IsSnapshotRecord(line0) =>
        /\ Aborted(am, am.req_data)
        /\ Aborted(ce, ce.request_data)
        /\ Aborted(gt, gt.request_data)

\* the part of C12 that the scripts do: an empty log, a first line that does
\* not decode to an object and an object whose "v" is a list all abort
C12_AbortsOnUnreadable ==
    (line0 = NoLine \/ ~IsDict(line0) \/ ~IsDict(Get(line0, "v", EmptyDict))) =>
        /\ Aborted(am, am.req_data)
        /\ Aborted(ce, ce.request_data)
        /\ Aborted(gt, gt.request_data)

\* a line that does not decode into a mutation record: invalid JSON, or
\* valid JSON that is not an object
Malformed(line) == line.t = "invalid" \/ (line.t # "blank" /\ ~IsDict(line))

\* the stores right after line k of the log was read
StoresAfter(k) == IF k = Len(log) THEN [am |-> am, ce |-> ce, gt |-> gt] ELSE prev[k + 1]

\* C13: a line after the snapshot that does not decode into a mutation
\* record (invalid JSON, or valid JSON that is not an object) is skipped
\* without aborting: the stores of the three replay loops after the line are
\* the stores before it, so the final state is that of the log without it.
C13_MalformedSkipped ==
    \A k \in 1..Len(log) : Malformed(log[k]) => StoresAfter(k) = prev[k]

\* the part of C13 that the scripts do: a line that is not valid JSON
C13_InvalidJsonSkipped ==
    \A k \in 1..Len(log) : log[k].t = "invalid" => StoresAfter(k) = prev[k]

\* agent_manifest returned exactly one window, numbered 0, over all requests
OneWindowOverAll ==
    /\ pc.am = "done"
    /\ Len(windows) = 1
    /\ windows[1].patch = 0
    /\ windows[1].req_start = 0
    /\ windows[1].req_end = Len(requests) - 1
    /\ windows[1].requests = requests

\* C14: for any request list load_requests returns, a zero-entity one
\* included, in which no boundary is detected, compute_patch_windows returns
\* exactly one window, numbered 0, that covers every request.
C14_ZeroBoundaries ==
    (pc.am # "replay" /\ reboot_indices(requests) = <<>>) => OneWindowOverAll

\* the part of C14 that the script does: a non-empty list without boundary
C14_NonEmptyList ==
    (pc.am # "replay" /\ reboot_indices(requests) = <<>> /\ Len(requests) > 0)
        => OneWindowOverAll

Analyzed == pc.am = "analyzed"

\* the first and the last request of manifest window k (it is not empty)
FirstOf(k) == windows[k].requests[1]
LastOf(k) == windows[k].requests[Len(windows[k].requests)]

\* C15: analyze_patch reports the duration (end_ts - start_ts) / 1000 seconds
\* whenever the first and the last request of the window both have an integer
\* timestamp, and None whenever one of the two timestamps is missing; a
\* missing timestamp is never replaced by a number.
C15_WindowDuration ==
    Analyzed =>
        \A k \in 1..Len(analyses) :
            Len(windows[k].requests) > 0 =>
                IF IsInt(FirstOf(k).timestamp) /\ IsInt(LastOf(k).timestamp)
                THEN analyses[k].duration_s
                        = F(LastOf(k).timestamp.v - FirstOf(k).timestamp.v, 1000)
                ELSE analyses[k].duration_s = Null

\* the part of C15 that the script does: timestamps other than 0, and
\* missing ones
C15_NonZeroTimestamps ==
    Analyzed =>
        \A k \in 1..Len(analyses) :
            (/\ Len(windows[k].requests) > 0
             /\ FirstOf(k).timestamp # I(0)
             /\ LastOf(k).timestamp # I(0)) =>
                IF IsInt(FirstOf(k).timestamp) /\ IsInt(LastOf(k).timestamp)
                THEN analyses[k].duration_s
                        = F(LastOf(k).timestamp.v - FirstOf(k).timestamp.v, 1000)
                ELSE analyses[k].duration_s = Null

\* the number of elements of the sequence q that satisfy Test
CountIn(q, Test(_)) == Cardinality({k \in 1..Len(q) : Test(q[k])})

\* an operation is unmatched when no entity with a timestamp has its requestId
Unmatched(rid) ==
    ~\E i \in DOMAIN ce.request_data :
        /\ Get(ce.request_data[i], "requestId", Null) = rid
        /\ Get(ce.request_data[i], "timestamp", Null) # Null

\* the sizes of the buckets of by_patch, summed
RECURSIVE SumSizes(_)
SumSizes(ps) ==
    IF ps = {} THEN 0
    ELSE LET p0 == CHOOSE x \in ps : TRUE IN Len(by_patch[p0]) + SumSizes(ps \ {p0})

UnresolvedBucket == IF -1 \in DOMAIN by_patch THEN by_patch[-1] ELSE <<>>

\* correlate_edits_to_patches keeps every operation, the unmatched ones in
\* bucket -1 and in no other
CorrelateKeepsAll ==
    /\ SumSizes(DOMAIN by_patch) = Len(ops)
    /\ \A p0 \in (DOMAIN by_patch) \ {-1} :
          \A k \in 1..Len(by_patch[p0]) : ~Unmatched(by_patch[p0][k].requestId)
    /\ CountIn(UnresolvedBucket, LAMBDA e : Unmatched(e.requestId))
          = CountIn(ops, LAMBDA op : Unmatched(OpRid(op)))

\* the paths analysis a lists for operations of the type of op
ListedPaths(a, op) ==
    LET q == IF Get(op, "type", S("")) = S("create") THEN a.edit_creates ELSE a.edit_edits
    IN {q[k] : k \in 1..Len(q)}

\* agent_manifest shows every operation in the analysis of some window
ManifestKeepsAll ==
    \A k \in 1..Len(ops) :
        \E j \in 1..Len(analyses) : OpFsPath(ops[k]) \in ListedPaths(analyses[j], ops[k])

\* C16: every operation of the operation log is kept in the result; one
\* whose requestId matches no entity, or whose timestamp is null, is placed
\* in the unresolved bucket (patch -1), never dropped and never assigned to a
\* real window, so the bucket sizes sum to the number of operations.
C16_OperationAccounting ==
    /\ pc.ce = "grouped" => CorrelateKeepsAll
    /\ Analyzed => ManifestKeepsAll

\* the part of C16 that holds: the buckets of correlate_edits_to_patches
C16_CorrelateOnly == pc.ce = "grouped" => CorrelateKeepsAll

IsTerminal(tc) == tc.tool_id = S("run_in_terminal")

IsFileCall(tc) == IsStr(tc.tool_id) /\ tc.tool_id.v \in (READ_TOOL_IDS \cup WRITE_TOOL_IDS)

\* C18: the command list of a window has one entry per run_in_terminal
\* invocation of the window: an invocation whose resultDetails holds no
\* input is listed as an unrecoverable command, never left out.
C18_CommandPerTerminalCall ==
    Analyzed =>
        \A k \in 1..Len(analyses) :
            Len(analyses[k].cmds)
                = CountIn(AllToolCalls(windows[k].requests), IsTerminal)

\* the part of C18 that holds: invocations with a command text are listed
C18_RecoveredCommandsListed ==
    Analyzed =>
        \A k \in 1..Len(analyses) :
            Len(analyses[k].cmds)
                = CountIn(AllToolCalls(windows[k].requests),
                          LAMBDA tc : IsTerminal(tc) /\ Truthy(tc.command))

\* C19: a file-read or file-write invocation whose message matches neither
\* pattern is still recorded in the read or write trail of its window, with
\* no path: reads plus writes has one entry per read/write invocation.
C19_PathlessRecorded ==
    Analyzed =>
        \A k \in 1..Len(analyses) :
            Len(analyses[k].reads) + Len(analyses[k].writes)
                = CountIn(AllToolCalls(windows[k].requests), IsFileCall)

\* the part of C19 that holds: the invocations with a path are recorded,
\* by the markdown link first and the bare URI otherwise
C19_ExtractedPathsRecorded ==
    Analyzed =>
        /\ \A k \in 1..Len(analyses) :
              Len(analyses[k].reads) + Len(analyses[k].writes)
                  = CountIn(AllToolCalls(windows[k].requests),
                            LAMBDA tc : IsFileCall(tc) /\ tc.file_path # Null)
        /\ extract_file_path(ReadLinked) = S("c:\\www\\a.md")
        /\ extract_file_path(WriteBare) = S("c:\\www\\b c.py")
        /\ extract_file_path(WriteNoPath) = Null

\* ts_to_patch has been called with a timestamp that is not None
Classified == pc.ce = "done" /\ op_ts \notin {NoQuery, Null}

\* C17: for any boundary list, one with a boundary entity without timestamp
\* included, ts_to_patch returns window 0 for a non-null timestamp only if
\* there are no boundaries or the timestamp is strictly earlier than the
\* timestamp of the first boundary; a boundary whose timestamp is unknown
\* never makes a timestamp fall into window 0.
C17_WindowZero ==
    (Classified /\ op_patch = 0) =>
        \/ Len(BoundaryTs) = 0
        \/ BoundaryTs[1] # Null /\ op_ts.v < BoundaryTs[1].v

\* the part of C17 that holds: when every boundary has a timestamp
C17_KnownTimestamps ==
    (Classified /\ op_patch = 0 /\ \A k \in 1..Len(BoundaryTs) : BoundaryTs[k] # Null) =>
        \/ Len(BoundaryTs) = 0
        \/ op_ts.v < BoundaryTs[1].v

\* the other of the two completed-marker strings
OtherMarker(m) ==
    IF m = "Compacted conversation" THEN "Summarized conversation history"
    ELSE "Compacted conversation"

\* the (entity, part) positions of data whose part carries a completed marker
MarkerParts(data) ==
    {ij \in UNION {{<<i, j>> : j \in 1..Len(RespIn(data, i))} : i \in DOMAIN data} :
        PartMarker(RespIn(data, ij[1])[ij[2]]) # Null}

\* data with the marker of part j of entity i replaced by the other marker
SwapMarker(data, i, j) ==
    LET parts == RespIn(data, i)
        swapped == MarkerPart(OtherMarker(PartMarker(parts[j]).v))
    IN SetAt(data, i, Put(data[i], "response", L([parts EXCEPT ![j] = swapped])))

\* the boundary events as (index, hash), of agent_manifest, count_reboots
\* and build_reboot_windows
EventsAM(data) ==
    LET reqs == RequestsOf(data)
        ris == reboot_indices(reqs)
    IN [k \in 1..Len(ris) |-> <<reqs[ris[k] + 1].idx, reqs[ris[k] + 1].summary_hash>>]
EventsGT(data) ==
    LET rs == count_reboots(data) IN [k \in 1..Len(rs) |-> <<rs[k].req_idx, rs[k].summary_hash>>]
EventsCE(data) ==
    LET cs == compactions_of(data) IN [k \in 1..Len(cs) |-> <<cs[k].req_idx, cs[k].hash>>]

\* does a part of the entity hold one of the two completed-marker strings as
\* the text of a progress part
HasMarkerText(raw) ==
    \E j \in 1..Len(PartsOf(Get(raw, "response", EmptyList))) :
        LET part == PartsOf(Get(raw, "response", EmptyList))[j] IN
        /\ IsDict(part)
        /\ Get(part, "kind", Null) \in {S("progressTask"), S("progressTaskSerialized")}
        /\ Get(Get(part, "content", EmptyDict), "value", Null)
              \in {S("Compacted conversation"), S("Summarized conversation history")}

\* C20: the two completed-marker strings are interchangeable: replacing one
\* by the other in any progress part of any entity leaves the emitted
\* boundary events (indices and hashes) and the windows unchanged, in each
\* of the three scripts; an entity whose progress parts hold any other text
\* is never a boundary.
C20_MarkerEquivalence ==
    /\ pc.am = "done" =>
        /\ \A ij \in MarkerParts(am.req_data) :
              LET other == SwapMarker(am.req_data, ij[1], ij[2]) IN
              /\ EventsAM(other) = EventsAM(am.req_data)
              /\ compute_patch_windows(RequestsOf(other)) = windows
        /\ \A k \in 1..Len(Boundaries) :
              HasMarkerText(am.req_data[requests[Boundaries[k] + 1].idx])
    /\ pc.gt = "done" =>
        /\ \A ij \in MarkerParts(gt.request_data) :
              EventsGT(SwapMarker(gt.request_data, ij[1], ij[2])) = EventsGT(gt.request_data)
        /\ \A k \in 1..Len(true_reboots) :
              HasMarkerText(gt.request_data[true_reboots[k].req_idx])
    /\ pc.ce = "done" =>
        /\ \A ij \in MarkerParts(ce.request_data) :
              LET other == SwapMarker(ce.request_data, ij[1], ij[2]) IN
              /\ EventsCE(other) = EventsCE(ce.request_data)
              /\ build_reboot_windows(other) = ce_windows
        /\ \A k \in 1..Len(compactions) :
              HasMarkerText(ce.request_data[compactions[k].req_idx])

\* C20 witness: boundaries under both marker strings, next to a request
\* whose progress text is no completed marker and that is no boundary
C20_Witness ==
    /\ AllDone
    /\ \E i, j, h \in DOMAIN gt.request_data :
          /\ get_compaction_marker(gt.request_data[i]) = S("Compacted conversation")
          /\ get_compaction_marker(gt.request_data[j]) = S("Summarized conversation history")
          /\ gt.request_data[h] = Summarizing(h)
          /\ InSeq(RebootIdxs, i) /\ InSeq(RebootIdxs, j) /\ ~InSeq(RebootIdxs, h)
          /\ InSeq(CompactionIdxs, i) /\ InSeq(CompactionIdxs, j) /\ ~InSeq(CompactionIdxs, h)
    /\ Len(Boundaries) = 2

\* the entity indices agree, reboot by reboot
SameReboots ==
    /\ Len(ce_windows) - 1 = Len(true_reboots)
    /\ \A k \in 1..(Len(ce_windows) - 1) : ce_windows[k + 1].patch = k
    /\ CompactionIdxs = RebootIdxs

\* C21: for every log, correlate_edits_to_patches yields as many reboot
\* patches (len(windows) - 1, numbered 1..N) as count_reboots_ground_truth
\* counts true reboots, and the k-th patch is on the same entity index as
\* the k-th true reboot.
C21_CrossToolAgreement ==
    (pc.gt = "done" /\ pc.ce = "done") => SameReboots

\* the two scripts agree on the logs without a bulk append
C21_WithoutBulkAppend ==
    (pc.gt = "done" /\ pc.ce = "done" /\ \A k \in 1..Len(log) : ~IsBulkAppend(log[k]))
        => SameReboots

\* agent_manifest.load_requests over a whole log: the patch loop from store st
RECURSIVE ReplayAM(_, _)
ReplayAM(st, lines) ==
    IF lines = <<>> \/ st.err THEN st
    ELSE ReplayAM(ApplyAM(st, Head(lines)), Tail(lines))

\* what agent_manifest.main hands to its printers for a log (first line,
\* later lines) and an operation list: the analyses of all windows
ManifestOutput(first, lines, oplist) ==
    LET st == ReplayAM(LoadSnapshotAM(first), lines)
        reqs == RequestsOf(st.req_data)
        ws == compute_patch_windows(reqs)
    IN [k \in 1..Len(ws) |-> analyze_patch(ws[k], load_editing_ops(oplist))]

\* the lines of the log that json.loads rejects, and the log without them
SkippedLines == {k \in 1..Len(log) : log[k] = BadLine}

RECURSIVE WithoutSkipped(_)
WithoutSkipped(lines) ==
    IF lines = <<>> THEN <<>>
    ELSE (IF Head(lines) = BadLine THEN <<>> ELSE <<Head(lines)>>)
         \o WithoutSkipped(Tail(lines))

\* the indices of the entities auto-created as stubs during the replay: a
\* patch on one request whose index the store did not hold
StubIndices ==
    {log[k].v["k"].v[2].v :
        k \in {j \in 1..Len(log) :
                 /\ IsDict(log[j])
                 /\ Get(log[j], "kind", Null) \in {I(1), I(2)}
                 /\ AddressesRequest(Get(log[j], "k", EmptyList))
                 /\ log[j].v["k"].v[2].v \notin DOMAIN prev[j].am.req_data}}

\* the snapshot line whose array also holds an empty entity at each index
\* of idxs (null in the gaps), so that the log creates no stub
PreCreated(first, idxs) ==
    LET orig == SnapshotReqs(first)
        n == IF idxs = {} THEN Len(orig)
             ELSE IF Len(orig) > MaxOf(idxs) + 1 THEN Len(orig) ELSE MaxOf(idxs) + 1
    IN SnapshotLine([j \in 1..n |->
                        IF j <= Len(orig) THEN orig[j]
                        ELSE IF (j - 1) \in idxs THEN EmptyDict ELSE Null])

\* C22: the number of skipped malformed lines and the number of
\* auto-created stub entities appear in the aggregate output of
\* agent_manifest (the per-window analyses): so the output of a log with
\* skipped lines differs from the output of the same log without them
\* (count 0), and the output of a log that auto-creates stubs differs from
\* the output of that log over a snapshot that already holds those entities.
C22_RecoveredConditionsSurfaced ==
    pc.am = "analyzed" =>
        /\ SkippedLines # {} =>
              analyses # ManifestOutput(line0, WithoutSkipped(log), ops)
        /\ (StubIndices # {} /\ SkippedLines = {}) =>
              analyses # ManifestOutput(PreCreated(line0, StubIndices), log, ops)

\* the analyses are those of the log without its skipped lines
C22_OutputIgnoresSkipped ==
    pc.am = "analyzed" => analyses = ManifestOutput(line0, WithoutSkipped(log), ops)

\* the analyses are those of the log over the snapshot with the stubs in it
C22_OutputIgnoresStubs ==
    pc.am = "analyzed" => analyses = ManifestOutput(PreCreated(line0, StubIndices), log, ops)

\* a log with a skipped line and an auto-created stub has been analysed
C22_Case ==
    pc.am = "analyzed" /\ SkippedLines # {} /\ StubIndices # {} /\ Len(analyses) = 2

\* the terminal tool invocations among parts, in order
RECURSIVE TerminalParts(_)
TerminalParts(parts) ==
    IF parts = <<>> THEN <<>>
    ELSE (IF IsTerminalPart(Head(parts)) THEN <<Head(parts)>> ELSE <<>>)
         \o TerminalParts(Tail(parts))

\* the terminal parts the first n lines of the log append to entity i
RECURSIVE AppendedTo(_, _)
AppendedTo(i, n) ==
    IF n = 0 THEN <<>>
    ELSE AppendedTo(i, n - 1)
         \o (IF IsResponseAppend(log[n], i) THEN TerminalParts(log[n].v["v"].v) ELSE <<>>)

\* every terminal part ever placed in the response of entity i, by the
\* snapshot and then by the response appends, in order
PlacedAt(i) ==
    LET arr == SnapshotReqs(line0)
    IN (IF i < Len(arr) /\ arr[i + 1] # Null
        THEN TerminalParts(PartsOf(Get(arr[i + 1], "response", EmptyList)))
        ELSE <<>>)
       \o AppendedTo(i, Len(log))

\* the calls mined for the request at position pos of the list
RECURSIVE CallsAt(_, _)
CallsAt(cs, pos) ==
    IF cs = <<>> THEN <<>>
    ELSE (IF Head(cs).req_idx = pos THEN <<Head(cs)>> ELSE <<>>) \o CallsAt(Tail(cs), pos)

\* the position in the returned list of the entity with index i
PositionOf(i) == Cardinality({j \in DOMAIN ta.requests : j < i})

\* one call per placed part, in order, for every entity of the store
OneCallPerPart ==
    \A i \in DOMAIN ta.requests :
        LET cs == CallsAt(calls, PositionOf(i))
            parts == PlacedAt(i)
        IN /\ Len(cs) = Len(parts)
           /\ \A n \in 1..Len(cs) :
                 cs[n].result_raw = Get(parts[n], "resultDetails", Null)

\* C23: mine_terminal_calls(load_requests(log)) of terminal_archaeology
\* holds exactly one TerminalCall for every run_in_terminal or
\* copilot_runInTerminal tool invocation ever placed in an entity's response
\* by the snapshot or by a response append; parts of an earlier append are
\* not lost when a later append on the same entity is applied.
C23_AllTerminalCalls ==
    pc.ta = "done" => OneCallPerPart

\* without response appends every terminal call of the snapshot is reported
C23_SnapshotCalls ==
    (pc.ta = "done" /\ log = <<>>) => OneCallPerPart

\* the number of tool-invocation parts in the response of a raw entity
ToolPartsIn(raw) ==
    LET parts == PartsOf(Get(raw, "response", EmptyList))
    IN Cardinality({n \in 1..Len(parts) : IsToolPart(parts[n])})

\* the sum of f over the positions 1..n
RECURSIVE SumTo(_, _)
SumTo(f(_), n) == IF n = 0 THEN 0 ELSE SumTo(f, n - 1) + f(n)

\* the sum of the counts of a histogram
RECURSIVE SumCounts(_)
SumCounts(h) ==
    IF DOMAIN h = {} THEN 0
    ELSE LET id == CHOOSE x \in DOMAIN h : TRUE
         IN h[id] + SumCounts([y \in (DOMAIN h) \ {id} |-> h[y]])

\* the tool-invocation parts of the entities of window k, from the store
PartsInWindow(k) ==
    LET reqs == windows[k].requests
        At(j) == ToolPartsIn(am.req_data[reqs[j].idx])
    IN SumTo(At, Len(reqs))

\* the tool-invocation parts of the whole entity list
PartsInList ==
    LET At(j) == ToolPartsIn(am.req_data[requests[j].idx])
    IN SumTo(At, Len(requests))

\* C24: for every window the counts of tool_counts add up to the number of
\* tool-invocation parts of the window's entities, those without a path or
\* a command included; over all windows they add up to the number of
\* tool-invocation parts of the whole entity list, so every invocation is
\* counted in exactly one window.
C24_ToolHistogram ==
    Analyzed =>
        /\ \A k \in 1..Len(analyses) :
              SumCounts(analyses[k].tool_counts) = PartsInWindow(k)
        /\ LET Of(k) == SumCounts(analyses[k].tool_counts)
           IN SumTo(Of, Len(analyses)) = PartsInList

\* C24 witness: two windows, the second holding a terminal call without
\* input and a write without path, three invocations counted in all
C24_Witness ==
    /\ Analyzed
    /\ Len(analyses) = 2
    /\ SumCounts(analyses[1].tool_counts) = 1
    /\ SumCounts(analyses[2].tool_counts) = 2
    /\ analyses[2].cmds = <<>>
    /\ analyses[2].writes = <<>>
    /\ PartsInList = 3

\* the tool calls of the requests of manifest window k
CallsOfWindow(k) == AllToolCalls(windows[k].requests)

\* does the trail of analysis a hold the invocation tc
InReads(a, tc) == \E n \in 1..Len(a.reads) : a.reads[n] = <<tc.file_path, tc.tool_id>>
InWrites(a, tc) == \E n \in 1..Len(a.writes) : a.writes[n] = <<tc.file_path, tc.tool_id>>
InCmds(a, tc) ==
    tc.tool_id = S("run_in_terminal") /\ \E n \in 1..Len(a.cmds) : a.cmds[n] = tc.command

\* the tool id is in neither id set and is not the terminal id
IsUnrecognized(tc) ==
    ~(IsStr(tc.tool_id)
      /\ tc.tool_id.v \in READ_TOOL_IDS \cup WRITE_TOOL_IDS \cup {"run_in_terminal"})

\* C26: the read and the write tool ids are disjoint and neither set holds
\* the terminal tool id, so analyze_patch puts each tool invocation into at
\* most one of reads, writes, cmds; an invocation with an unrecognized tool
\* id is in none of them and is still counted in tool_counts.
C26_DisjointClassification ==
    /\ READ_TOOL_IDS \cap WRITE_TOOL_IDS = {}
    /\ "run_in_terminal" \notin READ_TOOL_IDS \cup WRITE_TOOL_IDS
    /\ Analyzed =>
          \A k \in 1..Len(analyses) :
              LET a == analyses[k]
                  tcs == CallsOfWindow(k)
              IN /\ Len(a.reads) + Len(a.writes) + Len(a.cmds) <= Len(tcs)
                 /\ \A n \in 1..Len(tcs) :
                       /\ ~(InReads(a, tcs[n]) /\ InWrites(a, tcs[n]))
                       /\ ~(InReads(a, tcs[n]) /\ InCmds(a, tcs[n]))
                       /\ ~(InWrites(a, tcs[n]) /\ InCmds(a, tcs[n]))
                       /\ IsUnrecognized(tcs[n]) =>
                             /\ ~InReads(a, tcs[n])
                             /\ ~InWrites(a, tcs[n])
                             /\ ~InCmds(a, tcs[n])
                             /\ tcs[n].tool_id \in DOMAIN a.tool_counts
                             /\ a.tool_counts[tcs[n].tool_id] >= 1

\* C26 witness: one window with a read, a command, an unrecognized call
\* whose message holds a path, and a write; each trail has one entry
C26_Witness ==
    /\ Analyzed
    /\ Len(analyses) = 1
    /\ Len(analyses[1].reads) = 1
    /\ Len(analyses[1].cmds) = 1
    /\ Len(analyses[1].writes) = 1
    /\ S("copilot_fetchWebPage") \in DOMAIN analyses[1].tool_counts
    /\ \E n \in 1..Len(CallsOfWindow(1)) :
          IsUnrecognized(CallsOfWindow(1)[n]) /\ Truthy(CallsOfWindow(1)[n].file_path)

\* is the decoded line a scalar set: kind 1, path [requests, i, f]
IsScalarSet(line) ==
    /\ IsDict(line)
    /\ Get(line, "kind", Null) = I(1)
    /\ AddressesRequest(Get(line, "k", EmptyList))
    /\ Len(Get(line, "k", EmptyList).v) = 3

\* the scalar set of line, from store data "before" to "after": field f of
\* entity i is the value, entity i is there (made of f alone when it was
\* not), its other fields and all other entities are as before
ScalarSetRight(before, after, line) ==
    LET keys == line.v["k"].v
        i == keys[2].v
        f == KeyOf(keys[3])
        old == IF i \in DOMAIN before THEN before[i] ELSE EmptyDict
    IN /\ DOMAIN after = (DOMAIN before) \cup {i}
       /\ IsDict(after[i])
       /\ DOMAIN after[i].v = (DOMAIN old.v) \cup {f}
       /\ after[i].v[f] = Get(line, "v", Null)
       /\ \A g \in (DOMAIN old.v) \ {f} : after[i].v[g] = old.v[g]
       /\ \A j \in (DOMAIN before) \ {i} : after[j] = before[j]

\* C25: a kind-1 patch with path [requests, i, f] and value v makes field f
\* of entity i equal to v, replacing any previous value (a previous response
\* list included), creates entity i as an empty stub first when no entity
\* has index i, and leaves every other field of entity i and every other
\* entity unchanged, in each of the three replay loops.
C25_ScalarSet ==
    (Len(log) >= 1 /\ IsScalarSet(log[Len(log)])) =>
        /\ ~am.err => ScalarSetRight(prev[Len(prev)].am.req_data, am.req_data, log[Len(log)])
        /\ ~gt.err => ScalarSetRight(prev[Len(prev)].gt.request_data, gt.request_data,
                                     log[Len(log)])
        /\ ~ce.err => ScalarSetRight(prev[Len(prev)].ce.request_data, ce.request_data,
                                     log[Len(log)])

\* C25 witness: a scalar set that replaced the response list of entity 0,
\* then one that created entity 2 as a stub holding the field alone
C25_Witness ==
    /\ Len(log) = 2
    /\ IsScalarSet(log[1]) /\ log[1].v["k"].v[2] = I(0)
    /\ IsScalarSet(log[2]) /\ log[2].v["k"].v[2] = I(2)
    /\ ~am.err /\ ~gt.err /\ ~ce.err
    /\ 0 \in DOMAIN prev[1].am.req_data
    /\ RespIn(prev[1].am.req_data, 0) = <<ToolPart>>
    /\ RespIn(am.req_data, 0) = <<MarkerPart("Compacted conversation")>>
    /\ 2 \notin DOMAIN prev[2].am.req_data
    /\ am.req_data[2] = D([response |-> L(<<MarkerPart("Compacted conversation")>>)])
    /\ gt.request_data = am.req_data
    /\ ce.request_data = am.req_data

\* every entity of store data "before" is in "after" with all its fields
KeepsEntities(before, after) ==
    \A j \in DOMAIN before : j \in DOMAIN after /\ after[j] = before[j]

\* C27: a bulk append only assigns indices that hold no entity yet: every
\* entity that existed before it, a stub auto-created by an earlier patch
\* at or beyond the array length included, keeps all its fields, in
\* agent_manifest and in correlate_edits_to_patches.
C27_BulkAppendKeepsEntities ==
    (Len(log) >= 1 /\ IsBulkAppend(log[Len(log)])) =>
        /\ ~am.err => KeepsEntities(prev[Len(prev)].am.req_data, am.req_data)
        /\ ~ce.err => KeepsEntities(prev[Len(prev)].ce.request_data, ce.request_data)

\* a bulk append keeps the entities when no earlier patch named an index at
\* or beyond the length of the array
C27_WithoutEarlierStub ==
    (/\ Len(log) >= 1
     /\ IsBulkAppend(log[Len(log)])
     /\ \A j \in DOMAIN prev[Len(prev)].am.req_data : j < prev[Len(prev)].am.next_idx
     /\ \A j \in DOMAIN prev[Len(prev)].ce.request_data : j < prev[Len(prev)].ce.next_idx) =>
        /\ ~am.err => KeepsEntities(prev[Len(prev)].am.req_data, am.req_data)
        /\ ~ce.err => KeepsEntities(prev[Len(prev)].ce.request_data, ce.request_data)

\* the number of the manifest window that holds the request at position pos
ManifestWindowOf(pos) ==
    windows[CHOOSE k \in 1..Len(windows) :
                windows[k].req_start <= pos /\ pos <= windows[k].req_end].patch

\* both scripts took the same entities as boundaries
SameBoundaryEntities ==
    [k \in 1..Len(Boundaries) |-> requests[Boundaries[k] + 1].idx] = CompactionIdxs

\* every entity has a timestamp and the timestamps grow with the index
EntityTimesIncreasing ==
    /\ \A p \in 1..Len(requests) : IsInt(requests[p].timestamp)
    /\ \A p \in 1..(Len(requests) - 1) : requests[p].timestamp.v < requests[p + 1].timestamp.v

\* the two scripts ran on the snapshot and ts_to_patch was called with the
\* timestamp of an entity, under the conditions of C28
BothAssigned ==
    /\ pc.am = "done"
    /\ pc.ce = "done"
    /\ op_ts \notin {NoQuery, Null}
    /\ SameBoundaryEntities
    /\ EntityTimesIncreasing

\* C28: with the same boundary entities and entity timestamps known and
\* strictly increasing with the index, the number of the
\* compute_patch_windows window that holds entity e equals
\* ts_to_patch(timestamp(e)) over the windows of build_reboot_windows, for
\* every entity e, a boundary entity included.
C28_IndexAndTimestampAgree ==
    BothAssigned =>
        \A p \in 1..Len(requests) :
            requests[p].timestamp = op_ts => op_patch = ManifestWindowOf(p - 1)

\* the two assignments agree on every entity that is not a boundary
C28_AgreeOffBoundaries ==
    BothAssigned =>
        \A p \in 1..Len(requests) :
            (requests[p].timestamp = op_ts /\ ~InSeq(Boundaries, p - 1))
                => op_patch = ManifestWindowOf(p - 1)

\* a boundary entity closes window k by position and opens window k + 1 by
\* timestamp
C28_BoundaryOneWindowLater ==
    BothAssigned =>
        \A p \in 1..Len(requests) :
            (requests[p].timestamp = op_ts /\ InSeq(Boundaries, p - 1))
                => op_patch = ManifestWindowOf(p - 1) + 1

\* the last window of the manifest
LastWindow == windows[Len(windows)]

\* the last request of the list is an emitted boundary
LastIsBoundary == InSeq(reboot_indices(requests), Len(requests) - 1)

\* C29: for a non-empty entity list with N emitted boundaries
\* compute_patch_windows returns N + 1 windows; every window but the last
\* holds at least one entity; the last window is empty (start position =
\* end position + 1, start timestamp unknown) exactly when the last entity
\* of the list is a boundary.
C29_WindowCount ==
    (pc.am = "done" /\ Len(requests) > 0) =>
        /\ Len(windows) = Len(reboot_indices(requests)) + 1
        /\ \A k \in 1..(Len(windows) - 1) :
              /\ Len(windows[k].requests) >= 1
              /\ windows[k].req_start <= windows[k].req_end
        /\ LastWindow.requests = <<>> <=> LastIsBoundary
        /\ LastWindow.req_start = LastWindow.req_end + 1 <=> LastIsBoundary
        /\ LastIsBoundary => LastWindow.start_ts = Null
        /\ ~LastIsBoundary => LastWindow.req_start <= LastWindow.req_end

\* C29 witness: three requests, boundaries on the first and on the last,
\* three windows of which the last is empty
C29_Witness ==
    /\ pc.am = "done"
    /\ Len(requests) = 3
    /\ reboot_indices(requests) = <<0, 2>>
    /\ Len(windows) = 3
    /\ LastWindow.requests = <<>>
    /\ LastWindow.req_start = 3
    /\ LastWindow.req_end = 2
    /\ LastWindow.start_ts = Null
    /\ Len(windows[2].requests) = 2

\* C30: a kind-1 patch of depth > 3 whose path passes through an existing
\* value that is not a mapping (a list such as response addressed by an
\* integer, or a scalar) raises no error in agent_manifest.load_requests
\* and leaves the whole entity store as it was before the patch: no
\* intermediate mapping is created and no existing value is overwritten.
C30_BlockedNestedSet ==
    (/\ Len(log) >= 1
     /\ IsNestedSet(log[Len(log)])
     /\ ~prev[Len(prev)].am.err
     /\ Blocked(prev[Len(prev)].am.req_data, log[Len(log)])) =>
        /\ ~am.err
        /\ am.req_data = prev[Len(prev)].am.req_data
        /\ am.next_idx = prev[Len(prev)].am.next_idx

\* C30 witness: on a request with a response list, a deep set through the
\* response list and then one through the requestId string, the store
\* being after both what the snapshot held
C30_Witness ==
    /\ Len(log) = 2
    /\ log[1] = Patch(1, <<REQUESTS, I(0), S("response"), I(0), S("kind")>>, S("x"))
    /\ log[2] = Patch(1, <<REQUESTS, I(0), S("requestId"), S("a")>>, S("x"))
    /\ Blocked(prev[1].am.req_data, log[1])
    /\ Blocked(prev[2].am.req_data, log[2])
    /\ ~am.err
    /\ 0 \in DOMAIN am.req_data
    /\ am.req_data[0] = Plain(0)
    /\ am.req_data = prev[1].am.req_data

====
